---------------------------- MODULE Spec2Model ----------------------------
(***************************************************************************)
(* votigo: the voting domain engine.  The four tables of schema.sql are    *)
(* the state; every web handler and CLI command is an action built from    *)
(* the sqlc queries of queries.sql.  Strings that the code converts        *)
(* (nicknames, numeric form values) are sequences of one-character         *)
(* strings, so that trimming, lower-casing and parsing are computed.       *)
(***************************************************************************)
EXTENDS Integers, Sequences, FiniteSets, Bags, TLC

(***************************************************************************)
(* Bounds of the model.                                                    *)
(***************************************************************************)
MaxCategories == 2      \* category rows ever created
MaxOptionId   == 2      \* largest option id handed out
MaxVoteId     == 2      \* largest vote id handed out
MaxClock      == 1      \* last tick of CURRENT_TIMESTAMP
MaxSessions   == 2      \* ballot requests served at the same time

(***************************************************************************)
(* Program constants.                                                      *)
(***************************************************************************)
DefaultMaxRank == 3

VARIABLES
  categories,       \* table categories: set of rows
  options,          \* table options: set of rows
  votes,            \* table votes: set of rows
  vote_selections,  \* table vote_selections: bag of rows (the surrogate id
                    \* only tells duplicate rows apart, which a bag does)
  now,              \* CURRENT_TIMESTAMP
  resp,             \* what the last handler or command answered
  txs               \* in-flight ballot submissions (concurrent specification)

vars == <<categories, options, votes, vote_selections, now, resp, txs>>
db   == <<categories, options, votes, vote_selections>>

(***************************************************************************)
(* Values.                                                                 *)
(***************************************************************************)
VoteTypes    == {"single", "ranked", "approval"}
Statuses     == {"draft", "open", "closed", "archived"}
ShowResults  == {"live", "after_close"}

\* sql.NullInt64
NullInt64     == [Valid |-> FALSE, Int64 |-> 0]
ValidInt64(n) == [Valid |-> TRUE, Int64 |-> n]

Max(S)    == CHOOSE x \in S : \A y \in S : y <= x
\* INTEGER PRIMARY KEY without AUTOINCREMENT: largest rowid in the table + 1
NextId(T) == IF T = {} THEN 1 ELSE Max({r.id : r \in T}) + 1

(***************************************************************************)
(* String conversions of the Go standard library, on character sequences.  *)
(***************************************************************************)
Space == {" ", "\t"}

RECURSIVE TrimLeft(_)
TrimLeft(s) ==
  IF s # <<>> /\ Head(s) \in Space THEN TrimLeft(Tail(s)) ELSE s

RECURSIVE TrimRight(_)
TrimRight(s) ==
  IF s # <<>> /\ s[Len(s)] \in Space
  THEN TrimRight(SubSeq(s, 1, Len(s) - 1)) ELSE s

\* strings.TrimSpace
TrimSpace(s) == TrimRight(TrimLeft(s))

LowerOf == [ch \in {"A", "B", "Z"} |->
              CASE ch = "A" -> "a" [] ch = "B" -> "b" [] ch = "Z" -> "z"]

\* strings.ToLower
ToLower(s) ==
  [i \in 1..Len(s) |-> IF s[i] \in DOMAIN LowerOf THEN LowerOf[s[i]] ELSE s[i]]

Digits == {"0", "1", "2", "3", "4", "5", "6", "7", "8", "9"}
DigitVal == [ch \in Digits |->
  CASE ch = "0" -> 0 [] ch = "1" -> 1 [] ch = "2" -> 2 [] ch = "3" -> 3
    [] ch = "4" -> 4 [] ch = "5" -> 5 [] ch = "6" -> 6 [] ch = "7" -> 7
    [] ch = "8" -> 8 [] ch = "9" -> 9]

RECURSIVE ParseDigits(_, _)
ParseDigits(s, acc) ==
  IF s = <<>> THEN acc
  ELSE ParseDigits(Tail(s), 10 * acc + DigitVal[Head(s)])

\* strconv.ParseInt(s, 10, 64) with the error dropped (`v, _ :=`): a string
\* that is no decimal number yields 0.  Inputs stay far below 2^63.
ParseInt(s) ==
  LET signed == s # <<>> /\ Head(s) \in {"+", "-"}
      body   == IF signed THEN Tail(s) ELSE s
  IN  IF body = <<>> \/ \E i \in 1..Len(body) : body[i] \notin Digits
      THEN 0
      ELSE IF signed /\ Head(s) = "-"
           THEN 0 - ParseDigits(body, 0)
           ELSE ParseDigits(body, 0)

(***************************************************************************)
(* Storage access: the queries of queries.sql over the tables.             *)
(***************************************************************************)
\* CHECK constraints of table categories
CategoryChecks(voteType, status, showResults) ==
  /\ voteType \in VoteTypes
  /\ status \in Statuses
  /\ showResults \in ShowResults

\* CreateCategory: the inserted table
CreateCategory(name, voteType, status, showResults, maxRank) ==
  categories \cup {[id |-> NextId(categories), name |-> name,
                    vote_type |-> voteType, status |-> status,
                    show_results |-> showResults, max_rank |-> maxRank]}

CategoryExists(id) == \E c \in categories : c.id = id
\* GetCategory, for an id that exists
GetCategory(id)    == CHOOSE c \in categories : c.id = id

\* UpdateCategoryStatus: UPDATE categories SET status = ? WHERE id = ?
UpdateCategoryStatus(status, id) ==
  {IF c.id = id THEN [c EXCEPT !.status = status] ELSE c : c \in categories}

\* ArchiveCategory without its WHERE clause
ArchiveCategoryNoWhere(id) ==
  {[c EXCEPT !.status = "archived"] : c \in categories}

\* ArchiveCategory: UPDATE categories SET status = 'archived' WHERE id = ?
ArchiveCategory(id) ==
  {IF c.id = id THEN [c EXCEPT !.status = "archived"] ELSE c : c \in categories}

\* UpdateCategory as a replacement of the row, which gives status its
\* default again
UpdateCategoryReplacing(name, voteType, showResults, maxRank, id) ==
  {IF c.id = id
   THEN [c EXCEPT !.name = name, !.vote_type = voteType,
                  !.show_results = showResults, !.max_rank = maxRank,
                  !.status = "draft"]
   ELSE c : c \in categories}

\* UpdateCategory
UpdateCategory(name, voteType, showResults, maxRank, id) ==
  {IF c.id = id
   THEN [c EXCEPT !.name = name, !.vote_type = voteType,
                  !.show_results = showResults, !.max_rank = maxRank]
   ELSE c : c \in categories}

\* CountOptionsByCategory without its WHERE clause
CountOptionsByCategoryNoWhere(id) == Cardinality(options)

\* CountOptionsByCategory
CountOptionsByCategory(id) ==
  Cardinality({o \in options : o.category_id = id})

\* CreateOption: the inserted table (the foreign key on category_id is checked
\* by the caller of this definition)
CreateOption(categoryID, name, sortOrder) ==
  options \cup {[id |-> NextId(options), category_id |-> categoryID,
                 name |-> name, sort_order |-> sortOrder]}

OptionExists(id) == \E o \in options : o.id = id
GetOption(id)    == CHOOSE o \in options : o.id = id

\* DeleteOption
DeleteOption(id) == {o \in options : o.id # id}

\* ON DELETE CASCADE of vote_selections.option_id: the rows that survive the
\* deletion of option id
SelectionsWithoutOption(id) ==
  LET keep == {s \in BagToSet(vote_selections) : s.option_id # id}
  IN  [s \in keep |-> vote_selections[s]]

\* ON DELETE CASCADE of options.category_id, votes.category_id and, through
\* the deleted options and votes, of vote_selections: the rows that survive
\* the deletion of category id
OptionsWithoutCategory(id) == {o \in options : o.category_id # id}
VotesWithoutCategory(id)   == {v \in votes : v.category_id # id}
SelectionsWithoutCategory(id) ==
  LET keep == {s \in BagToSet(vote_selections) :
                 /\ ~\E v \in votes : v.id = s.vote_id /\ v.category_id = id
                 /\ ~\E o \in options : o.id = s.option_id /\ o.category_id = id}
  IN  [s \in keep |-> vote_selections[s]]

(***************************************************************************)
(* Category lifecycle.                                                     *)
(***************************************************************************)
\* an answer: the handler or command, and its outcome.  The answer to a
\* recorded ballot also keeps, as history, the category, the nickname as
\* typed, how many selections the voter's ballot held before (-1: the voter
\* had none) and the nickname typed in the request just before, when that
\* request was a recorded ballot of the same category (else empty).
Answer(op, out) ==
  [op |-> op, out |-> out, id |-> 0, raw |-> <<>>, prior |-> -1, prev |-> <<>>]
Recorded(id, raw, prior) ==
  [op |-> "vote", out |-> "recorded", id |-> id, raw |-> raw, prior |-> prior,
   prev |-> IF resp.out = "recorded" /\ resp.id = id THEN resp.raw ELSE <<>>]

\* a form that stores the parsed max_rank whatever the vote type
FormMaxRankAlways(voteType, maxRankStr) ==
  LET mr == ParseInt(maxRankStr)
  IN  ValidInt64(IF mr <= 0 THEN DefaultMaxRank ELSE mr)

\* the max_rank a create or edit form stores
FormMaxRank(voteType, maxRankStr) ==
  IF voteType = "ranked"
  THEN LET mr == ParseInt(maxRankStr)
       IN  ValidInt64(IF mr <= 0 THEN DefaultMaxRank ELSE mr)
  ELSE NullInt64

\* POST /admin/category/new
handleAdminCategoryNew(name, voteType, showResults, maxRankStr) ==
  /\ IF CategoryChecks(voteType, "draft", showResults)
     THEN /\ categories' = CreateCategory(name, voteType, "draft", showResults,
                                          FormMaxRank(voteType, maxRankStr))
          /\ resp' = Answer("new", "redirect")
     ELSE /\ categories' = categories
          /\ resp' = Answer("new", "failed to create")
  /\ UNCHANGED <<options, votes, vote_selections, now, txs>>

\* votigo category create NAME --type T --max-rank N (T is checked by the
\* command line parser's enum)
CategoryCreateCmdRun(name, type, maxRank) ==
  /\ type \in VoteTypes
  /\ categories' = CreateCategory(name, type, "draft", "after_close",
           IF type = "ranked" THEN ValidInt64(maxRank) ELSE NullInt64)
  /\ resp' = Answer("cli create", "ok")
  /\ UNCHANGED <<options, votes, vote_selections, now, txs>>

\* POST /admin/category/{id}/open
handleAdminOpen(id) ==
  /\ IF CountOptionsByCategory(id) = 0
     THEN /\ categories' = categories
          /\ resp' = Answer("open", "needs options")
     ELSE /\ categories' = UpdateCategoryStatus("open", id)
          /\ resp' = Answer("open", "redirect")
  /\ UNCHANGED <<options, votes, vote_selections, now, txs>>

\* votigo open ID
OpenCmdRun(id) ==
  /\ IF ~CategoryExists(id)
     THEN /\ categories' = categories
          /\ resp' = Answer("cli open", "not found")
     ELSE IF CountOptionsByCategory(id) = 0
     THEN /\ categories' = categories
          /\ resp' = Answer("cli open", "needs options")
     ELSE /\ categories' = UpdateCategoryStatus("open", id)
          /\ resp' = Answer("cli open", "ok")
  /\ UNCHANGED <<options, votes, vote_selections, now, txs>>

\* POST /admin/category/{id}/close
handleAdminClose(id) ==
  /\ categories' = UpdateCategoryStatus("closed", id)
  /\ resp' = Answer("close", "redirect")
  /\ UNCHANGED <<options, votes, vote_selections, now, txs>>

\* votigo close ID
CloseCmdRun(id) ==
  /\ IF ~CategoryExists(id)
     THEN /\ categories' = categories
          /\ resp' = Answer("cli close", "not found")
     ELSE /\ categories' = UpdateCategoryStatus("closed", id)
          /\ resp' = Answer("cli close", "ok")
  /\ UNCHANGED <<options, votes, vote_selections, now, txs>>

\* POST /admin/category/{id}/reopen
handleAdminReopen(id) ==
  /\ IF ~CategoryExists(id)
     THEN /\ categories' = categories
          /\ resp' = Answer("reopen", "not found")
     ELSE IF GetCategory(id).status # "closed"
     THEN /\ categories' = categories
          /\ resp' = Answer("reopen", "invalid transition")
     ELSE IF CountOptionsByCategory(id) = 0
     THEN /\ categories' = categories
          /\ resp' = Answer("reopen", "needs options")
     ELSE /\ categories' = UpdateCategoryStatus("open", id)
          /\ resp' = Answer("reopen", "redirect")
  /\ UNCHANGED <<options, votes, vote_selections, now, txs>>

\* POST /admin/category/{id}/archive
handleAdminArchive(id) ==
  /\ IF ~CategoryExists(id)
     THEN /\ categories' = categories
          /\ resp' = Answer("archive", "not found")
     ELSE IF GetCategory(id).status # "closed"
     THEN /\ categories' = categories
          /\ resp' = Answer("archive", "invalid transition")
     ELSE /\ categories' = ArchiveCategory(id)
          /\ resp' = Answer("archive", "redirect")
  /\ UNCHANGED <<options, votes, vote_selections, now, txs>>

\* DeleteCategory: DELETE FROM categories WHERE id = ?, run on the connection
\* that enforces the foreign keys
DeleteCategory(id) ==
  /\ categories' = {c \in categories : c.id # id}
  /\ options' = OptionsWithoutCategory(id)
  /\ votes' = VotesWithoutCategory(id)
  /\ vote_selections' = SelectionsWithoutCategory(id)
  /\ resp' = Answer("delete category", "done")
  /\ UNCHANGED <<now, txs>>

(***************************************************************************)
(* Options.                                                                *)
(***************************************************************************)
\* POST /admin/category/{id}/option: the errors of the count and of the
\* insert are dropped; an insert for a category that does not exist fails
\* on the foreign key
handleAdminAddOption(categoryID, optionName) ==
  /\ IF TrimSpace(optionName) = <<>> \/ ~CategoryExists(categoryID)
     THEN options' = options
     ELSE options' = CreateOption(categoryID, TrimSpace(optionName),
                                  CountOptionsByCategory(categoryID))
  /\ resp' = Answer("add option", "redirect")
  /\ UNCHANGED <<categories, votes, vote_selections, now, txs>>

\* votigo option add CATEGORY_ID NAME
OptionAddCmdRun(categoryID, optionName) ==
  /\ IF ~CategoryExists(categoryID)
     THEN /\ options' = options
          /\ resp' = Answer("cli add option", "not found")
     ELSE /\ options' = CreateOption(categoryID, optionName,
                                     CountOptionsByCategory(categoryID))
          /\ resp' = Answer("cli add option", "ok")
  /\ UNCHANGED <<categories, votes, vote_selections, now, txs>>

\* POST /admin/option/{id}/delete
handleAdminDeleteOption(id) ==
  /\ IF ~OptionExists(id)
     THEN /\ options' = options
          /\ vote_selections' = vote_selections
          /\ resp' = Answer("delete option", "redirect admin")
     ELSE /\ options' = DeleteOption(id)
          /\ vote_selections' = SelectionsWithoutOption(id)
          /\ resp' = Answer("delete option", "redirect")
  /\ UNCHANGED <<categories, votes, now, txs>>

\* votigo option remove OPTION_ID
OptionRemoveCmdRun(id) ==
  /\ IF ~OptionExists(id)
     THEN /\ options' = options
          /\ vote_selections' = vote_selections
          /\ resp' = Answer("cli remove option", "not found")
     ELSE /\ options' = DeleteOption(id)
          /\ vote_selections' = SelectionsWithoutOption(id)
          /\ resp' = Answer("cli remove option", "ok")
  /\ UNCHANGED <<categories, votes, now, txs>>

(***************************************************************************)
(* Category edit.                                                          *)
(***************************************************************************)
\* POST /admin/category/{id}
handleAdminCategoryEditAnyName(id, name, voteType, showResults, maxRankStr) ==
  /\ IF ~CategoryExists(id)
     THEN /\ categories' = categories
          /\ resp' = Answer("edit", "not found")
     ELSE IF ~CategoryChecks(voteType, "draft", showResults)
     THEN /\ categories' = categories
          /\ resp' = Answer("edit", "failed to update")
     ELSE /\ categories' = UpdateCategory(TrimSpace(name), voteType, showResults,
                                FormMaxRank(voteType, maxRankStr), id)
          /\ resp' = Answer("edit", "redirect")
  /\ UNCHANGED <<options, votes, vote_selections, now, txs>>

handleAdminCategoryEdit(id, name, voteType, showResults, maxRankStr) ==
  /\ IF ~CategoryExists(id)
     THEN /\ categories' = categories
          /\ resp' = Answer("edit", "not found")
     ELSE IF TrimSpace(name) = <<>>
     THEN /\ categories' = categories
          /\ resp' = Answer("edit", "name required")
     ELSE IF ~CategoryChecks(voteType, "draft", showResults)
     THEN /\ categories' = categories
          /\ resp' = Answer("edit", "failed to update")
     ELSE /\ categories' = UpdateCategory(TrimSpace(name), voteType, showResults,
                                FormMaxRank(voteType, maxRankStr), id)
          /\ resp' = Answer("edit", "redirect")
  /\ UNCHANGED <<options, votes, vote_selections, now, txs>>

(***************************************************************************)
(* The admin interface.                                                    *)
(***************************************************************************)
\* the password NewServer was given
adminPassword == "secret"

\* a check of the user name alone
AuthorizedByUser(cred) == cred.ok /\ cred.user = "admin"

\* the basic-auth check of handleAdmin on the result of r.BasicAuth()
Authorized(cred) ==
  ~(~cred.ok \/ cred.user # "admin" \/ cred.pass # adminPassword)

\* ListCategories: every row (the order of the rows is not modelled)
ListCategories == categories

\* ListCategoriesExcludeArchived
ListCategoriesExcludeArchived == {c \in categories : c.status # "archived"}

\* the answer of the dashboard: the categories it lists
DashboardPage(cats) ==
  [op |-> "dashboard", out |-> "page", id |-> 0, raw |-> <<>>, prior |-> -1,
   prev |-> <<>>, categories |-> cats]

\* GET /admin
handleAdminDashboard ==
  /\ resp' = DashboardPage(ListCategories)
  /\ UNCHANGED <<categories, options, votes, vote_selections, now, txs>>

\* a request to a path under /admin: the route the path selects and the
\* values the handler of that route reads
AdminRequest(route, id, name) == [route |-> route, id |-> id, name |-> name]

\* handleAdmin: the basic-auth gate, then the routes of handleAdmin and
\* handleAdminCategory
handleAdmin(cred, req) ==
  IF ~Authorized(cred)
  THEN /\ resp' = Answer("admin", "unauthorized")
       /\ UNCHANGED <<categories, options, votes, vote_selections, now, txs>>
  ELSE IF req.route = "dashboard" THEN handleAdminDashboard
  ELSE IF req.route = "new"
  THEN handleAdminCategoryNew(req.name, "single", "live", <<>>)
  ELSE IF req.route = "open" THEN handleAdminOpen(req.id)
  ELSE IF req.route = "close" THEN handleAdminClose(req.id)
  ELSE IF req.route = "option" THEN handleAdminAddOption(req.id, req.name)
  ELSE IF req.route = "edit"
  THEN handleAdminCategoryEdit(req.id, req.name, "approval", "live", <<>>)
  ELSE IF req.route = "delete option" THEN handleAdminDeleteOption(req.id)
  ELSE /\ resp' = Answer("admin", "not found")
       /\ UNCHANGED <<categories, options, votes, vote_selections, now, txs>>

(***************************************************************************)
(* Ballot engine.                                                          *)
(***************************************************************************)
\* a submitted form: nickname, the values of "choice" in order, and the
\* values of "rank1", "rank2", ... (a missing field reads as "")
Form(nickname, choice, rank) ==
  [nickname |-> nickname, choice |-> choice, rank |-> rank]

\* r.FormValue("choice"): the first value, "" when there is none
ChoiceValue(form) == IF form.choice = <<>> THEN <<>> ELSE form.choice[1]
\* r.FormValue("rank<i>")
RankValue(form, i) == IF i <= Len(form.rank) THEN form.rank[i] ELSE <<>>

Selection(optionID, rank) == [OptionID |-> optionID, Rank |-> rank]
Collected(sels) == [err |-> "", selections |-> sels]
\* a validation failure that does not stop the submission
RejectedButSaved(msg) == [err |-> "", selections |-> <<>>]

Rejected(msg)   == [err |-> msg, selections |-> <<>>]

\* effective max-rank of a category row
EffectiveMaxRank(cat) ==
  IF cat.max_rank.Valid THEN cat.max_rank.Int64 ELSE DefaultMaxRank

\* the loop over rank1..rank<maxRank> of handleVoteSubmit
RECURSIVE RankedLoop(_, _, _, _, _)
RankedLoop(form, i, maxRank, seen, sels) ==
  IF i > maxRank
  THEN IF sels = <<>> THEN Rejected("make a selection") ELSE Collected(sels)
  ELSE IF RankValue(form, i) = <<>>
  THEN RankedLoop(form, i + 1, maxRank, seen, sels)
  ELSE LET optID == ParseInt(RankValue(form, i))
       IN  IF optID \in seen
           THEN Rejected("choices must differ")
           ELSE RankedLoop(form, i + 1, maxRank, seen \cup {optID},
                           Append(sels, Selection(optID, ValidInt64(i))))

\* a collection that turns away a choice that is no option of the category
CollectSelectionsInCategory(cat, form) ==
  IF /\ cat.vote_type \in {"single", "approval"}
     /\ \E i \in 1..Len(form.choice) :
           ~\E o \in options : /\ o.id = ParseInt(form.choice[i])
                               /\ o.category_id = cat.id
  THEN Rejected("invalid option")
  ELSE IF cat.vote_type = "ranked"
  THEN RankedLoop(form, 1, EffectiveMaxRank(cat), {}, <<>>)
  ELSE IF Len(form.choice) = 0
  THEN Rejected("make a selection")
  ELSE IF cat.vote_type = "single"
  THEN Collected(<<Selection(ParseInt(ChoiceValue(form)), NullInt64)>>)
  ELSE Collected([i \in 1..Len(form.choice) |->
                    Selection(ParseInt(form.choice[i]), NullInt64)])

\* the switch on cat.VoteType of handleVoteSubmit
CollectSelections(cat, form) ==
  CASE cat.vote_type = "single" ->
         IF ChoiceValue(form) = <<>>
         THEN Rejected("make a selection")
         ELSE Collected(<<Selection(ParseInt(ChoiceValue(form)), NullInt64)>>)
    [] cat.vote_type = "approval" ->
         IF Len(form.choice) = 0
         THEN Rejected("make a selection")
         ELSE Collected([i \in 1..Len(form.choice) |->
                           Selection(ParseInt(form.choice[i]), NullInt64)])
    [] cat.vote_type = "ranked" ->
         RankedLoop(form, 1, EffectiveMaxRank(cat), {}, <<>>)
    [] OTHER -> Collected(<<>>)

\* the nickname trimmed but not lower-cased
NormalizeNicknameKeepCase(raw) == TrimSpace(raw)

\* nickname := strings.ToLower(strings.TrimSpace(...))
NormalizeNickname(raw) == ToLower(TrimSpace(raw))

VoteRows(V, categoryID, nickname) ==
  {v \in V : v.category_id = categoryID /\ v.nickname = nickname}

\* UpsertVote without its ON CONFLICT clause and without the UNIQUE index
UpsertVoteInsert(V, categoryID, nickname, t) ==
  LET new == [id |-> NextId(V), category_id |-> categoryID,
              nickname |-> nickname, created_at |-> t]
  IN  [votes |-> V \cup {new}, vote |-> new]

\* UpsertVote as INSERT OR REPLACE: the conflicting row is deleted and a new
\* row takes its place under a new id
UpsertVoteReplace(V, categoryID, nickname, t) ==
  LET new == [id |-> NextId(V), category_id |-> categoryID,
              nickname |-> nickname, created_at |-> t]
  IN  [votes |-> (V \ VoteRows(V, categoryID, nickname)) \cup {new},
       vote  |-> new]

\* UpsertVote on table V at time t: the table and the row RETURNING gives
UpsertVote(V, categoryID, nickname, t) ==
  IF VoteRows(V, categoryID, nickname) # {}
  THEN LET old == CHOOSE v \in VoteRows(V, categoryID, nickname) : TRUE
           new == [old EXCEPT !.created_at = t]
       IN  [votes |-> (V \ VoteRows(V, categoryID, nickname)) \cup {new},
            vote  |-> new]
  ELSE LET new == [id |-> NextId(V), category_id |-> categoryID,
                   nickname |-> nickname, created_at |-> t]
       IN  [votes |-> V \cup {new}, vote |-> new]

\* DeleteVoteSelections that deletes nothing
DeleteVoteSelectionsNone(S, voteID) == S

\* DeleteVoteSelections on bag S
DeleteVoteSelections(S, voteID) ==
  LET keep == {s \in BagToSet(S) : s.vote_id # voteID}
  IN  [s \in keep |-> S[s]]

\* CreateVoteSelection under a unique (vote_id, option_id): a second row for
\* the same option of the same vote is not stored
CreateVoteSelectionOnce(S, voteID, optionID, rank) ==
  LET row == [vote_id |-> voteID, option_id |-> optionID, rank |-> rank]
  IN  IF row \in BagToSet(S) THEN S ELSE S (+) SetToBag({row})

\* CreateVoteSelection on bag S
CreateVoteSelection(S, voteID, optionID, rank) ==
  S (+) SetToBag({[vote_id |-> voteID, option_id |-> optionID, rank |-> rank]})

\* the insert loop of handleVoteSubmit over selections k..Len
RECURSIVE InsertSelections(_, _, _, _)
InsertSelections(S, voteID, sels, k) ==
  IF k > Len(sels) THEN S
  ELSE InsertSelections(
         CreateVoteSelection(S, voteID, sels[k].OptionID, sels[k].Rank),
         voteID, sels, k + 1)

\* the foreign key vote_selections.option_id -> options(id)
OptionsExist(sels) == \A k \in 1..Len(sels) : OptionExists(sels[k].OptionID)

\* a status check that only turns drafts away
VotingOpenUnlessDraft(cat) == cat.status # "draft"

\* the status check of handleVote
VotingOpen(cat) == cat.status = "open"

\* the selections of vote voteID in bag S, as a bag of (option, rank)
SelectionsOf(S, voteID) ==
  LET mine == {s \in BagToSet(S) : s.vote_id = voteID}
      keys == {[option_id |-> s.option_id, rank |-> s.rank] : s \in mine}
  IN  [k \in keys |->
         S[[vote_id |-> voteID, option_id |-> k.option_id, rank |-> k.rank]]]

\* how many selections the ballot of (categoryID, nickname) holds; -1: no ballot
PriorSelections(categoryID, nickname) ==
  IF VoteRows(votes, categoryID, nickname) = {} THEN -1
  ELSE BagCardinality(SelectionsOf(vote_selections,
         (CHOOSE v \in VoteRows(votes, categoryID, nickname) : TRUE).id))

\* room for the row an upsert would insert
RoomForVote(categoryID, nickname) ==
  VoteRows(votes, categoryID, nickname) # {} \/ NextId(votes) <= MaxVoteId

\* POST /vote/{id}: handleVote and handleVoteSubmit, with the transaction of
\* upsert, delete and inserts committed or rolled back as a whole
handleVote(id, form) ==
  LET nickname == NormalizeNickname(form.nickname) IN
  /\ IF ~CategoryExists(id)
     THEN /\ UNCHANGED <<votes, vote_selections>>
          /\ resp' = Answer("vote", "not found")
     ELSE IF ~VotingOpen(GetCategory(id))
     THEN /\ UNCHANGED <<votes, vote_selections>>
          /\ resp' = Answer("vote", "not open")
     ELSE IF TrimSpace(form.nickname) = <<>>
     THEN /\ UNCHANGED <<votes, vote_selections>>
          /\ resp' = Answer("vote", "nickname required")
     ELSE LET got == CollectSelections(GetCategory(id), form) IN
          IF got.err # ""
          THEN /\ UNCHANGED <<votes, vote_selections>>
               /\ resp' = Answer("vote", got.err)
          ELSE /\ RoomForVote(id, nickname)
               /\ IF ~OptionsExist(got.selections)
                  THEN /\ UNCHANGED <<votes, vote_selections>>
                       /\ resp' = Answer("vote", "failed to save selection")
                  ELSE LET up == UpsertVote(votes, id, nickname, now) IN
                       /\ votes' = up.votes
                       /\ vote_selections' =
                            InsertSelections(
                              DeleteVoteSelections(vote_selections, up.vote.id),
                              up.vote.id, got.selections, 1)
                       /\ resp' = Recorded(id, form.nickname,
                                           PriorSelections(id, nickname))
  /\ UNCHANGED <<categories, options, now, txs>>

(***************************************************************************)
(* Tallies and the results page.                                           *)
(***************************************************************************)
\* a count of the selections of the category's votes instead of its votes
CountSelectionsByCategory(id) ==
  LET mine == {s \in BagToSet(vote_selections) :
                 \E v \in votes : v.category_id = id /\ v.id = s.vote_id}
  IN  BagCardinality([s \in mine |-> vote_selections[s]])

\* CountVotesByCategory
CountVotesByCategory(id) == Cardinality({v \in votes : v.category_id = id})

\* the rows of vote_selections the LEFT JOIN pairs with option optionID
JoinedSelections(optionID) ==
  {s \in BagToSet(vote_selections) : s.option_id = optionID}

\* COUNT(vs.id) over joined rows
RECURSIVE CountRows(_)
CountRows(rows) ==
  IF rows = {} THEN 0
  ELSE LET r == CHOOSE x \in rows : TRUE
       IN  vote_selections[r] + CountRows(rows \ {r})

\* SUM(max_rank - vs.rank): a first rank worth one point too few
RECURSIVE SumPointsOffByOne(_, _)
SumPointsOffByOne(rows, maxRank) ==
  IF rows = {} THEN 0
  ELSE LET r == CHOOSE x \in rows : TRUE
       IN  (IF r.rank.Valid
            THEN vote_selections[r] * (maxRank - r.rank.Int64)
            ELSE 0) + SumPointsOffByOne(rows \ {r}, maxRank)

\* COALESCE(SUM(max_rank - vs.rank + 1), 0): SUM skips a NULL rank
RECURSIVE SumPoints(_, _)
SumPoints(rows, maxRank) ==
  IF rows = {} THEN 0
  ELSE LET r == CHOOSE x \in rows : TRUE
       IN  (IF r.rank.Valid
            THEN vote_selections[r] * (maxRank - r.rank.Int64 + 1)
            ELSE 0) + SumPoints(rows \ {r}, maxRank)

\* COUNT(CASE WHEN vs.rank = 1 THEN 1 END)
FirstPlaceRows(rows) == {r \in rows : r.rank.Valid /\ r.rank.Int64 = 1}

\* ORDER BY over integer keys, compared column by column
LexLess(a, b) ==
  \E i \in 1..Len(a) : a[i] < b[i] /\ \A j \in 1..(i - 1) : a[j] = b[j]

RECURSIVE OrderBy(_)
OrderBy(rows) ==
  IF rows = {} THEN <<>>
  ELSE LET first == CHOOSE r \in rows :
                       \A q \in rows \ {r} : LexLess(r.key, q.key)
       IN  <<first>> \o OrderBy(rows \ {first})

\* ListOptionsByCategory: ORDER BY sort_order, id
ListOptionsByCategory(id) ==
  LET sorted == OrderBy({[row |-> o, key |-> <<o.sort_order, o.id>>] :
                           o \in {x \in options : x.category_id = id}})
  IN  [i \in 1..Len(sorted) |-> sorted[i].row]

\* TallySimple with ORDER BY votes DESC, o.id
TallySimpleById(id) ==
  LET grouped == {[id |-> o.id, name |-> o.name,
                   votes |-> CountRows(JoinedSelections(o.id)),
                   key |-> <<0 - CountRows(JoinedSelections(o.id)), o.id>>] :
                    o \in {x \in options : x.category_id = id}}
      sorted  == OrderBy(grouped)
  IN  [i \in 1..Len(sorted) |->
         [id |-> sorted[i].id, name |-> sorted[i].name,
          votes |-> sorted[i].votes]]

\* TallySimple: ORDER BY votes DESC, o.sort_order, o.id
TallySimple(id) ==
  LET grouped == {[id |-> o.id, name |-> o.name,
                   votes |-> CountRows(JoinedSelections(o.id)),
                   key |-> <<0 - CountRows(JoinedSelections(o.id)),
                             o.sort_order, o.id>>] :
                    o \in {x \in options : x.category_id = id}}
      sorted  == OrderBy(grouped)
  IN  [i \in 1..Len(sorted) |->
         [id |-> sorted[i].id, name |-> sorted[i].name,
          votes |-> sorted[i].votes]]

\* TallyRanked with ORDER BY points DESC, o.sort_order, o.id
TallyRankedNoFirstPlace(maxRank, id) ==
  LET grouped == {[id |-> o.id, name |-> o.name,
                   points |-> SumPoints(JoinedSelections(o.id), maxRank),
                   first_place_votes |->
                      CountRows(FirstPlaceRows(JoinedSelections(o.id))),
                   key |-> <<0 - SumPoints(JoinedSelections(o.id), maxRank),
                             o.sort_order, o.id>>] :
                    o \in {x \in options : x.category_id = id}}
      sorted  == OrderBy(grouped)
  IN  [i \in 1..Len(sorted) |->
         [id |-> sorted[i].id, name |-> sorted[i].name,
          points |-> sorted[i].points,
          first_place_votes |-> sorted[i].first_place_votes]]

\* TallyRanked: ORDER BY points DESC, first_place_votes DESC, o.sort_order, o.id
TallyRanked(maxRank, id) ==
  LET grouped == {[id |-> o.id, name |-> o.name,
                   points |-> SumPoints(JoinedSelections(o.id), maxRank),
                   first_place_votes |->
                      CountRows(FirstPlaceRows(JoinedSelections(o.id))),
                   key |-> <<0 - SumPoints(JoinedSelections(o.id), maxRank),
                             0 - CountRows(FirstPlaceRows(JoinedSelections(o.id))),
                             o.sort_order, o.id>>] :
                    o \in {x \in options : x.category_id = id}}
      sorted  == OrderBy(grouped)
  IN  [i \in 1..Len(sorted) |->
         [id |-> sorted[i].id, name |-> sorted[i].name,
          points |-> sorted[i].points,
          first_place_votes |-> sorted[i].first_place_votes]]

\* the answer of a results request: the voter count and the result lines
ResultsPage(op, out, id, count, results) ==
  [op |-> op, out |-> out, id |-> id, raw |-> <<>>, prior |-> -1,
   prev |-> <<>>, count |-> count, results |-> results]

\* the Result lines built from the tally rows of category cat
ResultLines(cat) ==
  IF cat.vote_type = "ranked"
  THEN LET rows == TallyRanked(EffectiveMaxRank(cat), cat.id)
       IN  [i \in 1..Len(rows) |->
              [Name |-> rows[i].name, Votes |-> 0, Points |-> rows[i].points,
               FirstPlace |-> rows[i].first_place_votes]]
  ELSE LET rows == TallySimple(cat.id)
       IN  [i \in 1..Len(rows) |->
              [Name |-> rows[i].name, Votes |-> rows[i].votes, Points |-> 0,
               FirstPlace |-> 0]]

\* the categories the results listing shows
ListCategoriesWithResults ==
  {c \in categories :
     \/ c.show_results = "live" /\ c.status = "open"
     \/ c.show_results = "after_close" /\ c.status = "closed"}

\* the visibility check of handleResults
NotVisible(cat) == cat.show_results = "after_close" /\ cat.status # "closed"

\* GET /results/{id}
handleResults(id) ==
  /\ IF ~CategoryExists(id)
     THEN resp' = Answer("results", "not found")
     ELSE IF NotVisible(GetCategory(id))
     THEN resp' = ResultsPage("results", "not visible", id, 0, <<>>)
     ELSE resp' = ResultsPage("results", "tally", id, CountVotesByCategory(id),
                              ResultLines(GetCategory(id)))
  /\ UNCHANGED <<categories, options, votes, vote_selections, now, txs>>

\* votigo results CATEGORY_ID
ResultsCmdRun(id) ==
  /\ IF ~CategoryExists(id)
     THEN resp' = Answer("cli results", "not found")
     ELSE resp' = ResultsPage("cli results", "tally", id,
                              CountVotesByCategory(id),
                              ResultLines(GetCategory(id)))
  /\ UNCHANGED <<categories, options, votes, vote_selections, now, txs>>

(***************************************************************************)
(* Ballots served concurrently: one goroutine per request.  A request      *)
(* reads the category, validates the form, and then runs its transaction   *)
(* statement by statement.  The storage engine admits one writer: the      *)
(* first write of a transaction takes the write lock or fails as busy; the *)
(* writer works on its own copy, which others see only once committed.     *)
(***************************************************************************)
Sessions == 1..MaxSessions

IdleTx ==
  [pc |-> "idle", id |-> 0, raw |-> <<>>, nickname |-> <<>>,
   selections |-> <<>>, fresh |-> FALSE, vote |-> 0,
   votes |-> {}, sels |-> EmptyBag, k |-> 0, count |-> 0]

Writing(s)  == txs[s].pc \in {"upserted", "inserting"}
WriteLocked == \E s \in Sessions : Writing(s)

\* handleVote and handleVoteSubmit up to s.db.Begin()
VoteRequest(s, id, form) ==
  /\ txs[s].pc = "idle"
  /\ IF ~CategoryExists(id)
     THEN /\ txs' = txs
          /\ resp' = Answer("vote", "not found")
     ELSE IF ~VotingOpen(GetCategory(id))
     THEN /\ txs' = txs
          /\ resp' = Answer("vote", "not open")
     ELSE IF TrimSpace(form.nickname) = <<>>
     THEN /\ txs' = txs
          /\ resp' = Answer("vote", "nickname required")
     ELSE LET got == CollectSelections(GetCategory(id), form) IN
          IF got.err # ""
          THEN /\ txs' = txs
               /\ resp' = Answer("vote", got.err)
          ELSE /\ txs' = [txs EXCEPT ![s] =
                   [IdleTx EXCEPT !.pc = "begun", !.id = id,
                      !.raw = form.nickname,
                      !.nickname = NormalizeNickname(form.nickname),
                      !.selections = got.selections,
                      !.fresh = (VoteRows(votes, id,
                                   NormalizeNickname(form.nickname)) = {})]]
               /\ resp' = resp
  /\ UNCHANGED <<categories, options, votes, vote_selections, now>>

\* qtx.UpsertVote: the first write of the transaction
TxUpsertVote(s) ==
  /\ txs[s].pc = "begun"
  /\ IF WriteLocked
     THEN /\ txs' = [txs EXCEPT ![s] = IdleTx]
          /\ resp' = Answer("vote", "failed to save vote")
     ELSE /\ RoomForVote(txs[s].id, txs[s].nickname)
          /\ LET up == UpsertVote(votes, txs[s].id, txs[s].nickname, now) IN
             txs' = [txs EXCEPT ![s].pc = "upserted", ![s].vote = up.vote.id,
                                ![s].votes = up.votes,
                                ![s].sels = vote_selections]
          /\ resp' = resp
  /\ UNCHANGED <<categories, options, votes, vote_selections, now>>

\* DeleteVoteSelections run outside the transaction, on the database itself
TxDeleteVoteSelectionsAutocommit(s) ==
  /\ txs[s].pc = "upserted"
  /\ vote_selections' = DeleteVoteSelections(vote_selections, txs[s].vote)
  /\ txs' = [txs EXCEPT ![s].pc = "inserting", ![s].k = 1,
                ![s].sels = DeleteVoteSelections(txs[s].sels, txs[s].vote)]
  /\ resp' = resp
  /\ UNCHANGED <<categories, options, votes, now>>

\* qtx.DeleteVoteSelections
TxDeleteVoteSelections(s) ==
  /\ txs[s].pc = "upserted"
  /\ txs' = [txs EXCEPT ![s].pc = "inserting", ![s].k = 1,
                ![s].sels = DeleteVoteSelections(txs[s].sels, txs[s].vote)]
  /\ resp' = resp
  /\ UNCHANGED <<categories, options, votes, vote_selections, now>>

\* CreateVoteSelection whose failure keeps what the transaction wrote so far
TxCreateVoteSelectionNoRollback(s) ==
  /\ txs[s].pc = "inserting"
  /\ txs[s].k <= Len(txs[s].selections)
  /\ LET sel == txs[s].selections[txs[s].k] IN
     IF ~OptionExists(sel.OptionID)
     THEN /\ txs' = [txs EXCEPT ![s] = IdleTx]
          /\ votes' = txs[s].votes
          /\ vote_selections' = txs[s].sels
          /\ resp' = Answer("vote", "failed to save selection")
     ELSE /\ txs' = [txs EXCEPT ![s].k = @ + 1,
                 ![s].sels = CreateVoteSelection(txs[s].sels, txs[s].vote,
                                                  sel.OptionID, sel.Rank)]
          /\ UNCHANGED <<votes, vote_selections>>
          /\ resp' = resp
  /\ UNCHANGED <<categories, options, now>>

\* qtx.CreateVoteSelection for selection k; a missing option fails the
\* foreign key and the deferred tx.Rollback() drops the copy
TxCreateVoteSelection(s) ==
  /\ txs[s].pc = "inserting"
  /\ txs[s].k <= Len(txs[s].selections)
  /\ LET sel == txs[s].selections[txs[s].k] IN
     IF ~OptionExists(sel.OptionID)
     THEN /\ txs' = [txs EXCEPT ![s] = IdleTx]
          /\ resp' = Answer("vote", "failed to save selection")
     ELSE /\ txs' = [txs EXCEPT ![s].k = @ + 1,
                 ![s].sels = CreateVoteSelection(txs[s].sels, txs[s].vote,
                                                  sel.OptionID, sel.Rank)]
          /\ resp' = resp
  /\ UNCHANGED <<categories, options, votes, vote_selections, now>>

\* a commit that adds the selections the transaction inserted to the ones
\* the database holds
TxCommitMerging(s) ==
  /\ txs[s].pc = "inserting"
  /\ txs[s].k > Len(txs[s].selections)
  /\ votes' = txs[s].votes
  /\ vote_selections' =
        vote_selections (+)
        InsertSelections(EmptyBag, txs[s].vote, txs[s].selections, 1)
  /\ resp' = Recorded(txs[s].id, txs[s].raw,
                      PriorSelections(txs[s].id, txs[s].nickname))
  /\ txs' = [txs EXCEPT ![s] = IdleTx]
  /\ UNCHANGED <<categories, options, now>>

\* tx.Commit(): the copy becomes the database
TxCommit(s) ==
  /\ txs[s].pc = "inserting"
  /\ txs[s].k > Len(txs[s].selections)
  /\ votes' = txs[s].votes
  /\ vote_selections' = txs[s].sels
  /\ resp' = Recorded(txs[s].id, txs[s].raw,
                      PriorSelections(txs[s].id, txs[s].nickname))
  /\ txs' = [txs EXCEPT ![s] = IdleTx]
  /\ UNCHANGED <<categories, options, now>>

\* a request inside its transaction holds a connection of the pool
HoldsConnection(s) == txs[s].pc \in {"begun", "upserted", "inserting"}
PoolInUse          == \E s \in Sessions : HoldsConnection(s)

\* POST /admin/option/{id}/delete served while another request holds a
\* connection.  Open ran PRAGMA foreign_keys = ON once, on one connection of
\* the pool; the connection this request is given is that one or one the
\* pool opened since, on which no foreign key is enforced and the DELETE
\* cascades to nothing.  A DELETE that meets the write lock fails as busy;
\* the handler drops the error of DeleteOption and redirects
handleAdminDeleteOptionPooled(id) ==
  /\ PoolInUse
  /\ IF ~OptionExists(id)
     THEN /\ options' = options
          /\ vote_selections' = vote_selections
          /\ resp' = Answer("delete option", "redirect admin")
     ELSE IF WriteLocked
     THEN /\ options' = options
          /\ vote_selections' = vote_selections
          /\ resp' = Answer("delete option", "redirect")
     ELSE /\ options' = DeleteOption(id)
          /\ vote_selections' \in {SelectionsWithoutOption(id), vote_selections}
          /\ resp' = Answer("delete option", "redirect")
  /\ UNCHANGED <<categories, votes, now, txs>>

\* GET /results/{id} up to and including CountVotesByCategory: a statement
\* of its own, outside any transaction
ResultsRequest(s, id) ==
  /\ txs[s].pc = "idle"
  /\ IF ~CategoryExists(id)
     THEN /\ txs' = txs
          /\ resp' = Answer("results", "not found")
     ELSE IF NotVisible(GetCategory(id))
     THEN /\ txs' = txs
          /\ resp' = ResultsPage("results", "not visible", id, 0, <<>>)
     ELSE /\ txs' = [txs EXCEPT ![s] =
                 [IdleTx EXCEPT !.pc = "counted", !.id = id,
                                !.count = CountVotesByCategory(id)]]
          /\ resp' = resp
  /\ UNCHANGED <<categories, options, votes, vote_selections, now>>

\* the tally statement of the request and its page (the vote type and the
\* max_rank of the category row read at the start do not change meanwhile)
ResultsTally(s) ==
  /\ txs[s].pc = "counted"
  /\ resp' = ResultsPage("results", "tally", txs[s].id, txs[s].count,
                         ResultLines(GetCategory(txs[s].id)))
  /\ txs' = [txs EXCEPT ![s] = IdleTx]
  /\ UNCHANGED <<categories, options, votes, vote_selections, now>>

\* a second of wall-clock time passes
Tick ==
  /\ now < MaxClock
  /\ now' = now + 1
  /\ resp' = Answer("tick", "none")
  /\ UNCHANGED <<categories, options, votes, vote_selections, txs>>

(***************************************************************************)
(* Initial state: the migrated, empty database.                            *)
(***************************************************************************)
Init ==
  /\ categories = {}
  /\ options = {}
  /\ votes = {}
  /\ vote_selections = EmptyBag
  /\ now = 0
  /\ resp = Answer("start", "none")
  /\ txs = [s \in Sessions |-> IdleTx]

(***************************************************************************)
(* The lifecycle specification: categories, their options and the four     *)
(* transitions, from the web admin and from the command line.              *)
(***************************************************************************)
CategoryIds  == 1..(MaxCategories + 1)   \* one id beyond every row
OptionIds    == 1..(MaxOptionId + 1)

LcNames       == {<<"x">>}
LcVoteTypes   == {"single", "bogus"}
LcShowResults == {"live"}
LcMaxRankStrs == {<<"2">>, <<"x">>}
LcOptionNames == {<<"x">>, <<" ">>}

\* the caps that keep the tables finite
RoomForCategory(n) == NextId(categories) <= n
RoomForOption      == NextId(options) <= MaxOptionId

NextLifecycle ==
  \/ /\ RoomForCategory(MaxCategories)
     /\ \E n \in LcNames, vt \in LcVoteTypes, sr \in LcShowResults,
           mr \in LcMaxRankStrs : handleAdminCategoryNew(n, vt, sr, mr)
  \/ /\ RoomForCategory(MaxCategories)
     /\ \E n \in LcNames, vt \in {"approval"}, mr \in {0} :
           CategoryCreateCmdRun(n, vt, mr)
  \/ \E id \in CategoryIds : handleAdminOpen(id)
  \/ \E id \in CategoryIds : OpenCmdRun(id)
  \/ \E id \in CategoryIds : handleAdminClose(id)
  \/ \E id \in CategoryIds : CloseCmdRun(id)
  \/ \E id \in CategoryIds : handleAdminReopen(id)
  \/ \E id \in CategoryIds : handleAdminArchive(id)
  \/ /\ RoomForOption
     /\ \E id \in CategoryIds, n \in LcOptionNames : handleAdminAddOption(id, n)
  \/ /\ RoomForOption
     /\ \E id \in CategoryIds, n \in LcNames : OptionAddCmdRun(id, n)
  \/ \E id \in OptionIds : handleAdminDeleteOption(id)
  \/ \E id \in OptionIds : OptionRemoveCmdRun(id)

SpecLifecycle == Init /\ [][NextLifecycle]_vars

(***************************************************************************)
(* The ballot specification: one poll, edited, opened and closed by the    *)
(* admin, with options added and removed, and ballots submitted one at a   *)
(* time.                                                                   *)
(***************************************************************************)
BallotCategories == 1

BtNames       == {<<"x">>, <<" ">>}
BtVoteTypes   == {"single", "approval"}
BtNicknames   == {<<"Z">>, <<" ", "z">>, <<"b">>, <<" ">>}
BtChoices     == {<<>>, <<<<"1">>>>, <<<<"2">>>>, <<<<"x">>>>,
                  <<<<"1">>, <<"2">>>>, <<<<"2">>, <<"2">>>>}
\* the forms tried on category id; a request that is answered before the
\* form is parsed carries one form
BtForms(id) ==
  IF ~CategoryExists(id) \/ GetCategory(id).status # "open"
  THEN {Form(<<"Z">>, <<<<"1">>>>, <<>>)}
  ELSE {Form(n, c, <<>>) : n \in BtNicknames, c \in BtChoices}
\* the edits tried on category id
BtEdits(id) ==
  IF ~CategoryExists(id)
  THEN {<<<<"x">>, "single">>}
  ELSE {<<n, vt>> : n \in BtNames, vt \in BtVoteTypes}

BallotCategoryIds == 1..(BallotCategories + 1)

NextBallot ==
  \/ /\ RoomForCategory(BallotCategories)
     /\ \E vt \in BtVoteTypes : handleAdminCategoryNew(<<"x">>, vt, "live", <<>>)
  \/ \E id \in BallotCategoryIds : \E e \in BtEdits(id) :
        handleAdminCategoryEdit(id, e[1], e[2], "live", <<>>)
  \/ \E id \in BallotCategoryIds : handleAdminOpen(id)
  \/ \E id \in BallotCategoryIds : handleAdminClose(id)
  \/ /\ RoomForOption
     /\ \E id \in BallotCategoryIds : handleAdminAddOption(id, <<"x">>)
  \/ \E id \in OptionIds : handleAdminDeleteOption(id)
  \/ \E id \in BallotCategoryIds : \E form \in BtForms(id) : handleVote(id, form)

SpecBallot == Init /\ [][NextBallot]_vars

(***************************************************************************)
(* The timed specification: ballots of a single or approval poll while     *)
(* wall-clock time passes, so that created_at tells a refreshed row from   *)
(* an untouched one.                                                       *)
(***************************************************************************)
NextTimed ==
  \/ /\ RoomForCategory(BallotCategories)
     /\ \E vt \in BtVoteTypes : handleAdminCategoryNew(<<"x">>, vt, "live", <<>>)
  \/ \E id \in BallotCategoryIds : handleAdminOpen(id)
  \/ \E id \in BallotCategoryIds : handleAdminClose(id)
  \/ /\ RoomForOption
     /\ \E id \in BallotCategoryIds : handleAdminAddOption(id, <<"x">>)
  \/ \E id \in BallotCategoryIds : \E form \in BtForms(id) : handleVote(id, form)
  \/ Tick

SpecTimed == Init /\ [][NextTimed]_vars

(***************************************************************************)
(* The concurrent specification: ballots of one single-choice poll served  *)
(* by concurrent requests, while the admin adds options and opens and      *)
(* closes the poll.  An admin write waits for the write lock.              *)
(***************************************************************************)
CcNicknames == {<<"Z">>, <<"z">>, <<" ">>}
CcChoices   == {<<<<"1">>>>, <<<<"2">>>>}
CcForms(id) ==
  IF ~CategoryExists(id) \/ GetCategory(id).status # "open"
  THEN {Form(<<"Z">>, <<<<"1">>>>, <<>>)}
  ELSE {Form(n, c, <<>>) : n \in CcNicknames, c \in CcChoices}

NextConcurrent ==
  \/ /\ RoomForCategory(BallotCategories)
     /\ ~WriteLocked
     /\ handleAdminCategoryNew(<<"x">>, "single", "live", <<>>)
  \/ \E id \in BallotCategoryIds : ~WriteLocked /\ handleAdminOpen(id)
  \/ \E id \in BallotCategoryIds : ~WriteLocked /\ handleAdminClose(id)
  \/ /\ RoomForOption
     /\ ~WriteLocked
     /\ \E id \in BallotCategoryIds : handleAdminAddOption(id, <<"x">>)
  \/ \E s \in Sessions, id \in BallotCategoryIds : \E form \in CcForms(id) :
        VoteRequest(s, id, form)
  \/ \E s \in Sessions : TxUpsertVote(s)
  \/ \E s \in Sessions : TxDeleteVoteSelections(s)
  \/ \E s \in Sessions : TxCreateVoteSelection(s)
  \/ \E s \in Sessions : TxCommit(s)

SpecConcurrent == Init /\ [][NextConcurrent]_vars

(***************************************************************************)
(* The replacement specification: ballots of one approval poll cast and    *)
(* re-cast by concurrent requests, one of them naming an option that does  *)
(* not exist, while other requests read the results and time passes.       *)
(***************************************************************************)
RpChoices == {<<<<"1">>>>, <<<<"2">>>>, <<<<"1">>, <<"3">>>>}
RpForms(id) ==
  IF ~CategoryExists(id) \/ GetCategory(id).status # "open"
  THEN {Form(<<"z">>, <<<<"1">>>>, <<>>)}
  ELSE {Form(<<"z">>, c, <<>>) : c \in RpChoices}

NextReplace ==
  \/ /\ RoomForCategory(BallotCategories)
     /\ ~WriteLocked
     /\ handleAdminCategoryNew(<<"x">>, "approval", "live", <<>>)
  \/ \E id \in BallotCategoryIds : ~WriteLocked /\ handleAdminOpen(id)
  \/ /\ RoomForOption
     /\ ~WriteLocked
     /\ \E id \in BallotCategoryIds : handleAdminAddOption(id, <<"x">>)
  \/ \E s \in Sessions, id \in BallotCategoryIds : \E form \in RpForms(id) :
        VoteRequest(s, id, form)
  \/ \E s \in Sessions : TxUpsertVote(s)
  \/ \E s \in Sessions : TxDeleteVoteSelections(s)
  \/ \E s \in Sessions : TxCreateVoteSelection(s)
  \/ \E s \in Sessions : TxCommit(s)
  \/ \E s \in Sessions, id \in BallotCategoryIds : ResultsRequest(s, id)
  \/ \E s \in Sessions : ResultsTally(s)
  \/ Tick

SpecReplace == Init /\ [][NextReplace]_vars

(***************************************************************************)
(* The poll specification: one poll of any vote type, created and edited   *)
(* (vote type and max_rank) by the admin, with up to three options, opened, *)
(* voted on with the form of its vote type, and its results read from the   *)
(* web and from the command line.                                          *)
(***************************************************************************)
PollOptionId == 3

PlNicknames   == {<<"a">>, <<"B">>}
PlRanks       == {<<<<"1">>, <<"2">>, <<>>>>, <<<<"2">>, <<"1">>, <<>>>>,
                  <<<<>>, <<>>, <<"2">>>>, <<<<>>, <<"2">>, <<>>>>,
                  <<<<"1">>, <<"1">>, <<>>>>, <<<<"1">>, <<"2">>, <<"1">>>>,
                  <<<<>>, <<>>, <<>>>>}
PlChoices     == {<<>>, <<<<"1">>>>, <<<<"1">>, <<"2">>>>}
PlMaxRankStrs == {<<>>, <<"2">>}

\* the forms tried on category id: the fields of the form of its vote type,
\* and one form without a nickname
PlForms(id) ==
  IF ~CategoryExists(id) \/ GetCategory(id).status # "open"
  THEN {Form(<<"a">>, <<<<"1">>>>, <<>>)}
  ELSE IF GetCategory(id).vote_type = "ranked"
  THEN {Form(n, <<>>, r) : n \in PlNicknames, r \in PlRanks}
          \cup {Form(<<" ">>, <<>>, <<<<"1">>, <<>>, <<>>>>)}
  ELSE {Form(n, c, <<>>) : n \in PlNicknames, c \in PlChoices}
          \cup {Form(<<" ">>, <<<<"1">>>>, <<>>)}
\* the edits tried on category id
PlEdits(id) ==
  IF ~CategoryExists(id)
  THEN {<<"ranked", <<>>>>}
  ELSE {<<vt, mr>> : vt \in VoteTypes, mr \in PlMaxRankStrs}

RoomForOptionId(n) == NextId(options) <= n

NextPoll ==
  \/ /\ RoomForCategory(BallotCategories)
     /\ \E vt \in VoteTypes, mr \in PlMaxRankStrs :
           handleAdminCategoryNew(<<"x">>, vt, "live", mr)
  \/ \E id \in BallotCategoryIds : \E e \in PlEdits(id) :
        handleAdminCategoryEdit(id, <<"x">>, e[1], "live", e[2])
  \/ \E id \in BallotCategoryIds : handleAdminOpen(id)
  \/ /\ RoomForOptionId(PollOptionId)
     /\ \E id \in BallotCategoryIds : handleAdminAddOption(id, <<"x">>)
  \/ \E id \in BallotCategoryIds : \E form \in PlForms(id) : handleVote(id, form)
  \/ \E id \in BallotCategoryIds : handleResults(id)
  \/ \E id \in BallotCategoryIds : ResultsCmdRun(id)
  \/ Tick

SpecPoll == Init /\ [][NextPoll]_vars

(***************************************************************************)
(* The tally specification: one poll of a fixed vote type whose options    *)
(* are added and removed, voted on by two voters, with its results read    *)
(* from the web and from the command line.                                 *)
(***************************************************************************)
TallyOptionId == 4

TlNicknames   == {<<"a">>, <<"b">>}
TlRanks       == {<<<<"1">>, <<"2">>, <<>>>>, <<<<"2">>, <<"1">>, <<>>>>,
                  <<<<>>, <<>>, <<"1">>>>}
TlChoices     == {<<<<"3">>>>, <<<<"4">>>>, <<<<"3">>, <<"4">>>>}
TlMaxRankStrs == {<<>>, <<"2">>}

TlForms(id) ==
  IF ~CategoryExists(id) \/ GetCategory(id).status # "open"
  THEN {Form(<<"a">>, <<<<"1">>>>, <<>>)}
  ELSE IF GetCategory(id).vote_type = "ranked"
  THEN {Form(n, <<>>, r) : n \in TlNicknames, r \in TlRanks}
  ELSE {Form(n, c, <<>>) : n \in TlNicknames, c \in TlChoices}

TallyOptionIds == 1..TallyOptionId

NextTally ==
  \/ /\ RoomForCategory(BallotCategories)
     /\ \E vt \in VoteTypes, mr \in TlMaxRankStrs :
           handleAdminCategoryNew(<<"x">>, vt, "live", mr)
  \/ \E id \in BallotCategoryIds : handleAdminOpen(id)
  \/ /\ RoomForOptionId(TallyOptionId)
     /\ \E id \in BallotCategoryIds : handleAdminAddOption(id, <<"x">>)
  \/ \E id \in TallyOptionIds : handleAdminDeleteOption(id)
  \/ \E id \in BallotCategoryIds : \E form \in TlForms(id) : handleVote(id, form)
  \/ \E id \in BallotCategoryIds : handleResults(id)
  \/ \E id \in BallotCategoryIds : ResultsCmdRun(id)

SpecTally == Init /\ [][NextTally]_vars

(***************************************************************************)
(* The visibility specification: categories of either results visibility   *)
(* taken through their lifecycle and edited, with results requests at      *)
(* every status.                                                           *)
(***************************************************************************)
VsEdits(id) ==
  IF ~CategoryExists(id) THEN {"live"} ELSE ShowResults

NextVisibility ==
  \/ /\ RoomForCategory(MaxCategories)
     /\ \E sr \in ShowResults : handleAdminCategoryNew(<<"x">>, "single", sr, <<>>)
  \/ \E id \in CategoryIds : \E sr \in VsEdits(id) :
        handleAdminCategoryEdit(id, <<"x">>, "single", sr, <<>>)
  \/ /\ RoomForOption
     /\ \E id \in CategoryIds : handleAdminAddOption(id, <<"x">>)
  \/ \E id \in CategoryIds : handleAdminOpen(id)
  \/ \E id \in CategoryIds : handleAdminClose(id)
  \/ \E id \in CategoryIds : handleAdminReopen(id)
  \/ \E id \in CategoryIds : handleAdminArchive(id)
  \/ \E id \in CategoryIds : handleResults(id)

SpecVisibility == Init /\ [][NextVisibility]_vars



(***************************************************************************)
(* The voters specification: two single or approval polls, voted on by     *)
(* the same voters under nicknames typed in several ways, with the results *)
(* read from the web and from the command line while time passes.          *)
(***************************************************************************)
VtNicknames == {<<"Z">>, <<" ", "z">>, <<"b">>}
VtChoices   == {<<<<"1">>>>, <<<<"1">>, <<"2">>>>}
VtForms(id) ==
  IF ~CategoryExists(id) \/ GetCategory(id).status # "open"
  THEN {Form(<<"Z">>, <<<<"1">>>>, <<>>)}
  ELSE {Form(n, c, <<>>) : n \in VtNicknames, c \in VtChoices}

NextVoters ==
  \/ /\ RoomForCategory(MaxCategories)
     /\ \E vt \in BtVoteTypes : handleAdminCategoryNew(<<"x">>, vt, "live", <<>>)
  \/ \E id \in CategoryIds : handleAdminOpen(id)
  \/ /\ RoomForOption
     /\ \E id \in CategoryIds : handleAdminAddOption(id, <<"x">>)
  \/ \E id \in CategoryIds : \E form \in VtForms(id) : handleVote(id, form)
  \/ \E id \in CategoryIds : handleResults(id)
  \/ \E id \in CategoryIds : ResultsCmdRun(id)
  \/ Tick

SpecVoters == Init /\ [][NextVoters]_vars


(***************************************************************************)
(* The pool specification: ballots of an approval poll served by concurrent *)
(* requests over the connection pool, while the admin adds and deletes     *)
(* options and categories are deleted.                                     *)
(***************************************************************************)
PoChoices   == {<<<<"1">>>>, <<<<"1">>, <<"2">>>>}
PoForms(id) ==
  IF ~CategoryExists(id) \/ GetCategory(id).status # "open"
  THEN {Form(<<"a">>, <<<<"1">>>>, <<>>)}
  ELSE {Form(<<"a">>, c, <<>>) : c \in PoChoices}

NextPool ==
  \/ /\ RoomForCategory(BallotCategories)
     /\ ~PoolInUse
     /\ handleAdminCategoryNew(<<"x">>, "approval", "live", <<>>)
  \/ \E id \in BallotCategoryIds : ~PoolInUse /\ handleAdminOpen(id)
  \/ /\ RoomForOption
     /\ ~PoolInUse
     /\ \E id \in BallotCategoryIds : handleAdminAddOption(id, <<"x">>)
  \/ \E id \in OptionIds : ~PoolInUse /\ handleAdminDeleteOption(id)
  \/ \E id \in OptionIds : handleAdminDeleteOptionPooled(id)
  \/ \E id \in BallotCategoryIds : ~PoolInUse /\ DeleteCategory(id)
  \/ \E s \in Sessions, id \in BallotCategoryIds : \E form \in PoForms(id) :
        VoteRequest(s, id, form)
  \/ \E s \in Sessions : TxUpsertVote(s)
  \/ \E s \in Sessions : TxDeleteVoteSelections(s)
  \/ \E s \in Sessions : TxCreateVoteSelection(s)
  \/ \E s \in Sessions : TxCommit(s)

SpecPool == Init /\ [][NextPool]_vars


(***************************************************************************)
(* The categories specification: categories created from the web form and  *)
(* from the command line and edited from the web form, with every vote     *)
(* type and with max_rank values that are missing, zero, negative, not a   *)
(* number, or positive.                                                    *)
(***************************************************************************)
CgMaxRankStrs == {<<>>, <<"0">>, <<"-", "1">>, <<"x">>, <<"2">>}
CgMaxRanks    == {-1, 0, 2, 3}
CgEdits(id) ==
  IF ~CategoryExists(id)
  THEN {<<"ranked", <<>>>>}
  ELSE {<<vt, mr>> : vt \in VoteTypes, mr \in CgMaxRankStrs}

NextCategories ==
  \/ /\ RoomForCategory(MaxCategories)
     /\ \E vt \in VoteTypes, mr \in CgMaxRankStrs :
           handleAdminCategoryNew(<<"x">>, vt, "live", mr)
  \/ /\ RoomForCategory(MaxCategories)
     /\ \E vt \in VoteTypes, mr \in CgMaxRanks :
           CategoryCreateCmdRun(<<"x">>, vt, mr)
  \/ \E id \in CategoryIds : \E e \in CgEdits(id) :
        handleAdminCategoryEdit(id, <<"x">>, e[1], "live", e[2])

SpecCategories == Init /\ [][NextCategories]_vars


(***************************************************************************)
(* The admin specification: requests to the paths under /admin, with every *)
(* kind of credentials, on one poll and its options.                       *)
(***************************************************************************)
AdUsers     == {"admin", "Admin", "root"}
AdPasswords == {"secret", "Secret", ""}
\* r.BasicAuth(): no Authorization header, or the user and password of one
AdCredentials ==
  {[ok |-> FALSE, user |-> "", pass |-> ""]} \cup
  {[ok |-> TRUE, user |-> u, pass |-> p] : u \in AdUsers, p \in AdPasswords}

AdRequests(route) ==
  IF route \in {"dashboard", "other"} THEN {AdminRequest(route, 0, <<>>)}
  ELSE IF route = "new" THEN {AdminRequest(route, 0, <<"x">>)}
  ELSE IF route = "delete option"
  THEN {AdminRequest(route, id, <<>>) : id \in OptionIds}
  ELSE {AdminRequest(route, id, <<"x">>) : id \in BallotCategoryIds}

AdRoutes == {"dashboard", "new", "open", "close", "option", "edit",
             "delete option", "other"}

\* the caps that keep the tables finite
AdRoom(req) ==
  /\ req.route = "new" => RoomForCategory(BallotCategories)
  /\ req.route = "option" => RoomForOption

NextAdmin ==
  \E cred \in AdCredentials, route \in AdRoutes : \E req \in AdRequests(route) :
     AdRoom(req) /\ handleAdmin(cred, req)

SpecAdmin == Init /\ [][NextAdmin]_vars


(***************************************************************************)
(* The dashboard specification: categories taken through their lifecycle   *)
(* up to archived, with the admin dashboard read at every point.           *)
(***************************************************************************)
NextDashboard ==
  \/ /\ RoomForCategory(MaxCategories)
     /\ handleAdminCategoryNew(<<"x">>, "single", "live", <<>>)
  \/ /\ RoomForOption
     /\ \E id \in CategoryIds : handleAdminAddOption(id, <<"x">>)
  \/ \E id \in CategoryIds : handleAdminOpen(id)
  \/ \E id \in CategoryIds : handleAdminClose(id)
  \/ \E id \in CategoryIds : handleAdminArchive(id)
  \/ handleAdminDashboard

SpecDashboard == Init /\ [][NextDashboard]_vars

(***************************************************************************)
(* The whole life of one category: every operation on it, from the admin    *)
(* interface and from the command line, and the ballots.                    *)
(***************************************************************************)
\* the names typed into the edit form, and the edits tried on category id
StNames == {<<"x">>, <<>>, <<" ">>, <<" ", " ">>, <<" ", "y">>}
StEdits(id) ==
  IF ~CategoryExists(id)
  THEN {<<<<"x">>, "single">>}
  ELSE {<<n, vt>> : n \in StNames, vt \in BtVoteTypes}

NextStatus ==
  \/ /\ RoomForCategory(BallotCategories)
     /\ \E vt \in BtVoteTypes : handleAdminCategoryNew(<<"x">>, vt, "live", <<>>)
  \/ \E id \in BallotCategoryIds : \E e \in StEdits(id) :
        handleAdminCategoryEdit(id, e[1], e[2], "live", <<>>)
  \/ \E id \in BallotCategoryIds : handleAdminOpen(id)
  \/ \E id \in BallotCategoryIds : OpenCmdRun(id)
  \/ \E id \in BallotCategoryIds : handleAdminClose(id)
  \/ \E id \in BallotCategoryIds : CloseCmdRun(id)
  \/ \E id \in BallotCategoryIds : handleAdminReopen(id)
  \/ \E id \in BallotCategoryIds : handleAdminArchive(id)
  \/ /\ RoomForOption
     /\ \E id \in BallotCategoryIds : handleAdminAddOption(id, <<"x">>)
  \/ \E id \in OptionIds : handleAdminDeleteOption(id)
  \/ \E id \in BallotCategoryIds : \E form \in BtForms(id) : handleVote(id, form)

SpecStatus == Init /\ [][NextStatus]_vars

(***************************************************************************)
(* Lifecycle claims.                                                       *)
(***************************************************************************)
StatusOf(id)       == GetCategory(id).status
HasOptions(id)     == \E o \in options : o.category_id = id
Succeeded          == resp.out \in {"redirect", "ok"}
\* every category row but id is as it was
OthersKept(id)     == \A c \in categories : c.id # id => c \in categories'

\* C1: Open (web and CLI) succeeds and sets the status to open if and only if
\* the category has an option and is draft or closed; otherwise it fails and
\* the status is unchanged.
C1_OpenIffLegal ==
  [][\A id \in CategoryIds :
       (CategoryExists(id) /\ (handleAdminOpen(id) \/ OpenCmdRun(id))) =>
          IF HasOptions(id) /\ StatusOf(id) \in {"draft", "closed"}
          THEN Succeeded' /\ StatusOf(id)' = "open"
          ELSE ~Succeeded' /\ StatusOf(id)' = StatusOf(id)]_vars

\* C2: Close is legal only from open: it closes an open category, and on a
\* draft, closed or archived category it fails with an invalid-transition
\* outcome and leaves the status unchanged.
C2_CloseOnlyFromOpen ==
  [][\A id \in CategoryIds :
       (CategoryExists(id) /\ (handleAdminClose(id) \/ CloseCmdRun(id))) =>
          IF StatusOf(id) = "open"
          THEN StatusOf(id)' = "closed"
          ELSE ~Succeeded' /\ StatusOf(id)' = StatusOf(id)]_vars

C5_ArchivedIsTerminal ==
  [][\A c \in categories :
       c.status = "archived" =>
          \E d \in categories' : d.id = c.id /\ d.status = "archived"]_vars


(***************************************************************************)
(* Ballot claims.                                                          *)
(***************************************************************************)
\* the selections a form submits to a category, as a bag of (option, rank)
SubmittedBag(cat, form) ==
  LET sels == CollectSelections(cat, form).selections
      keys == {[option_id |-> sels[k].OptionID, rank |-> sels[k].Rank] :
                 k \in 1..Len(sels)}
  IN  [x \in keys |->
         Cardinality({k \in 1..Len(sels) :
            sels[k].OptionID = x.option_id /\ sels[k].Rank = x.rank})]

BallotOf(v)  == SelectionsOf(vote_selections, v.id)
BallotSize(v) == BagCardinality(BallotOf(v))

\* two nicknames that differ at most in letter case and surrounding blanks
CasePairs == {<<"A", "a">>, <<"B", "b">>, <<"Z", "z">>}
SameVoter(a, b) ==
  LET x == TrimSpace(a)
      y == TrimSpace(b)
  IN  /\ Len(x) = Len(y)
      /\ \A i \in 1..Len(x) :
            \/ x[i] = y[i]
            \/ <<x[i], y[i]>> \in CasePairs
            \/ <<y[i], x[i]>> \in CasePairs

\* the forms for category id that carry nickname raw as typed
TypedAs(id, raw) == {f \in BtForms(id) : f.nickname = raw}

\* C6: a ballot submitted to a category that is not open is rejected: no
\* Vote row is created or refreshed and no Selection is added or removed.
C6_NotOpenRejected ==
  [][\A id \in BallotCategoryIds : \A form \in BtForms(id) :
       (CategoryExists(id) /\ StatusOf(id) # "open" /\ handleVote(id, form)) =>
          /\ resp'.out = "not open"
          /\ votes' = votes
          /\ vote_selections' = vote_selections]_vars

C6_Witness ==
  /\ resp = Answer("vote", "not open")
  /\ \E c \in categories : c.status = "closed"
  /\ \E v \in votes : v.created_at < now /\ BallotSize(v) > 0

\* C8: a successful second submission by a nickname that already has a
\* ballot in the category leaves exactly one Vote row for the pair, whose
\* Selections are exactly those of the second submission.
C8_RevoteReplaces ==
  [][(resp'.op = "vote" /\ resp'.out = "recorded") =>
       \A id \in {resp'.id} : \A form \in TypedAs(id, resp'.raw) :
          (/\ handleVote(id, form)
           /\ VoteRows(votes, id, NormalizeNickname(form.nickname)) # {}) =>
             LET rows == VoteRows(votes', id, NormalizeNickname(form.nickname))
             IN  /\ Cardinality(rows) = 1
                 /\ \A v \in rows :
                       SelectionsOf(vote_selections', v.id) =
                          SubmittedBag(GetCategory(id), form)]_vars

\* a re-vote under the same nickname that chose fewer options than before
C8_Witness ==
  /\ resp.out = "recorded" /\ resp.prev = resp.raw /\ resp.prior = 2
  /\ \E v \in votes : /\ v.nickname = NormalizeNickname(resp.raw)
                      /\ BallotSize(v) = 1

\* C9: voter identity is case-insensitive: after a successful submission
\* there is exactly one Vote row in the category whose nickname equals the
\* typed one up to letter case and surrounding whitespace, and it holds the
\* selections just submitted.
C9_CaseInsensitiveIdentity ==
  [][(resp'.op = "vote" /\ resp'.out = "recorded") =>
       \A id \in {resp'.id} : \A form \in TypedAs(id, resp'.raw) :
          handleVote(id, form) =>
             LET rows == {v \in votes' : /\ v.category_id = id
                                         /\ SameVoter(v.nickname, form.nickname)}
             IN  /\ Cardinality(rows) = 1
                 /\ \A v \in rows :
                       SelectionsOf(vote_selections', v.id) =
                          SubmittedBag(GetCategory(id), form)]_vars

\* two recorded ballots in a row whose nicknames differ only in case or
\* blanks, the second replacing the first
C9_Witness ==
  /\ resp.out = "recorded" /\ resp.prior >= 0
  /\ resp.prev # <<>> /\ resp.prev # resp.raw /\ SameVoter(resp.prev, resp.raw)
  /\ Cardinality({v \in votes : SameVoter(v.nickname, resp.raw)}) = 1

\* C10: every Vote of a single category owns exactly one Selection and every
\* Vote of an approval or ranked category owns at least one.
C10_SelectionCounts ==
  \A v \in votes :
     IF GetCategory(v.category_id).vote_type = "single"
     THEN BallotSize(v) = 1
     ELSE BallotSize(v) >= 1


\* C7: in every reachable state, also after concurrent first-time
\* submissions by the same voter, there is at most one Vote row per
\* (category, normalized nickname) pair.
C7_OneVotePerVoter ==
  \A v \in votes : \A w \in votes :
     (v.category_id = w.category_id /\ SameVoter(v.nickname, w.nickname))
        => v = w

\* a request that began as the voter's first ballot, and whose upsert then
\* met the row a concurrent request of the same voter had committed
C7_Witness ==
  \E s \in Sessions :
     /\ txs[s].pc = "upserted" /\ txs[s].fresh
     /\ VoteRows(votes, txs[s].id, txs[s].nickname) # {}
     /\ Cardinality(txs[s].votes) = 1


(***************************************************************************)
(* Ranked ballots and validation.                                          *)
(***************************************************************************)
\* the stored Selection rows of vote v
RowsOf(v) == {s \in BagToSet(vote_selections) : s.vote_id = v.id}

\* C11: in every reachable state the Selections of every Vote of a ranked
\* category have pairwise distinct option ids and pairwise distinct ranks,
\* each rank between 1 and the category's effective max-rank.
C11_RankedBallotsWellFormed ==
  \A v \in votes :
     GetCategory(v.category_id).vote_type = "ranked" =>
        /\ \A s \in RowsOf(v) :
              /\ vote_selections[s] = 1
              /\ s.rank.Valid
              /\ s.rank.Int64 >= 1
              /\ s.rank.Int64 <= EffectiveMaxRank(GetCategory(v.category_id))
        /\ \A s \in RowsOf(v) : \A t \in RowsOf(v) :
              s # t => s.option_id # t.option_id /\ s.rank # t.rank

\* a form the validation of handleVoteSubmit must turn away: no nickname, no
\* selection, or (ranked) an option id repeated within the ranks read
BlankNickname(form) == \A i \in 1..Len(form.nickname) : form.nickname[i] \in Space
NoSelection(cat, form) ==
  CASE cat.vote_type = "single"   -> form.choice = <<>> \/ form.choice[1] = <<>>
    [] cat.vote_type = "approval" -> form.choice = <<>>
    [] cat.vote_type = "ranked"   ->
         \A i \in 1..Len(form.rank) :
            i <= EffectiveMaxRank(cat) => form.rank[i] = <<>>
    [] OTHER -> FALSE
RepeatedChoice(cat, form) ==
  /\ cat.vote_type = "ranked"
  /\ \E i \in 1..Len(form.rank) : \E j \in 1..Len(form.rank) :
        /\ i < j /\ j <= EffectiveMaxRank(cat)
        /\ form.rank[i] # <<>> /\ form.rank[i] = form.rank[j]
ValidationErrors == {"nickname required", "make a selection", "choices must differ"}

\* C12: a submission to an open category that fails validation (blank
\* nickname, no selection, repeated ranked choice) is answered with a
\* validation message and leaves the votes, their timestamps and the
\* selections exactly as they were.
C12_InvalidBallotTouchesNothing ==
  [][resp'.op = "vote" =>
     \A id \in BallotCategoryIds : \A form \in PlForms(id) :
       (/\ CategoryExists(id)
        /\ StatusOf(id) = "open"
        /\ \/ BlankNickname(form)
           \/ NoSelection(GetCategory(id), form)
           \/ RepeatedChoice(GetCategory(id), form)
        /\ handleVote(id, form))
       => /\ resp'.out \in ValidationErrors
          /\ votes' = votes
          /\ vote_selections' = vote_selections]_vars

\* a repeated ranked choice turned away at a later time than a stored ballot
C12_Witness ==
  /\ resp = Answer("vote", "choices must differ")
  /\ \E v \in votes : v.created_at < now /\ BallotSize(v) > 0


(***************************************************************************)
(* Storage failures and concurrent reads.                                  *)
(***************************************************************************)
StorageFailures == {"failed to save vote", "failed to save selection"}
InTransaction(s) == txs[s].pc \in {"begun", "upserted", "inserting"}

RpBallots ==
  {SubmittedBag([vote_type |-> "approval"], Form(<<"z">>, c, <<>>)) :
     c \in {d \in RpChoices : \A i \in 1..Len(d) : OptionExists(ParseInt(d[i]))}}

\* C14: what a tally or voter-count read can see, at any moment of
\* concurrent submissions, is for every Vote one whole submitted ballot:
\* never a Vote without Selections, never a mix of its old and new ones.
C14_ReadsSeeWholeBallots ==
  \A v \in votes : BallotSize(v) > 0 /\ BallotOf(v) \in RpBallots

\* a results request between its two reads while a re-vote has deleted the
\* old selections in its transaction and not yet inserted the new ones
C14_Witness ==
  \E r \in Sessions : \E w \in Sessions :
     /\ txs[r].pc = "counted" /\ txs[r].count = 1
     /\ txs[w].pc = "inserting" /\ ~txs[w].fresh
     /\ BagCardinality(SelectionsOf(txs[w].sels, txs[w].vote)) = 0


(***************************************************************************)
(* Tally claims.                                                           *)
(***************************************************************************)
OptionsOf(id) == {o \in options : o.category_id = id}
\* the Selections that name option optionID, and those that rank it r
Cast(optionID) ==
  BagCardinality([s \in {x \in BagToSet(vote_selections) :
                           x.option_id = optionID} |-> vote_selections[s]])
CastAtRank(optionID, r) ==
  BagCardinality([s \in {x \in BagToSet(vote_selections) :
                           /\ x.option_id = optionID
                           /\ x.rank.Valid /\ x.rank.Int64 = r}
                    |-> vote_selections[s]])
RanksCast(optionID) ==
  {x.rank.Int64 : x \in {y \in BagToSet(vote_selections) :
                           y.option_id = optionID /\ y.rank.Valid}}
\* the tally a results page was built from is the tally of the state
PageIsCurrent ==
  /\ resp.op \in {"results", "cli results"} /\ resp.out = "tally"
  /\ CategoryExists(resp.id)
  /\ resp.results = ResultLines(GetCategory(resp.id))

\* C15: the simple tally of a category has exactly one row per option of the
\* category, each with the number of Selections naming it (0 when none),
\* ordered by count descending, then sort order ascending, then option id
\* ascending.
C15_SimpleTallyCompleteAndOrdered ==
  \A c \in categories :
     LET t == TallySimple(c.id) IN
     /\ Len(t) = Cardinality(OptionsOf(c.id))
     /\ {t[i].id : i \in 1..Len(t)} = {o.id : o \in OptionsOf(c.id)}
     /\ \A i \in 1..Len(t) : t[i].votes = Cast(t[i].id)
     /\ \A i \in 1..Len(t) : \A j \in 1..Len(t) :
           i < j =>
              LET a == GetOption(t[i].id)
                  b == GetOption(t[j].id)
              IN  \/ t[i].votes > t[j].votes
                  \/ /\ t[i].votes = t[j].votes
                     /\ a.sort_order < b.sort_order
                  \/ /\ t[i].votes = t[j].votes
                     /\ a.sort_order = b.sort_order
                     /\ a.id < b.id

\* a results page of a simple poll where two options with one selection
\* each are listed by sort order against their ids
C15_Witness ==
  /\ PageIsCurrent
  /\ GetCategory(resp.id).vote_type # "ranked"
  /\ \E a \in OptionsOf(resp.id) : \E b \in OptionsOf(resp.id) :
        /\ a.id > b.id /\ a.sort_order < b.sort_order
        /\ Cast(a.id) = 1 /\ Cast(b.id) = 1

RECURSIVE SumVotes(_, _)
SumVotes(t, i) == IF i > Len(t) THEN 0 ELSE t[i].votes + SumVotes(t, i + 1)
RECURSIVE SumBallots(_)
SumBallots(V) ==
  IF V = {} THEN 0
  ELSE LET v == CHOOSE x \in V : TRUE
       IN  BallotSize(v) + SumBallots(V \ {v})

\* C16: in every reachable state the counts of the simple tally of a single
\* category add up to the number of its Vote rows, and those of an approval
\* category to the number of Selections its ballots hold.
C16_TallySumsMatchBallots ==
  \A c \in categories :
     /\ c.vote_type = "single" =>
           SumVotes(TallySimple(c.id), 1) = CountVotesByCategory(c.id)
     /\ c.vote_type = "approval" =>
           SumVotes(TallySimple(c.id), 1) =
              SumBallots({v \in votes : v.category_id = c.id})

RECURSIVE PointsByRank(_, _, _)
PointsByRank(optionID, maxRank, ranks) ==
  IF ranks = {} THEN 0
  ELSE LET r == CHOOSE x \in ranks : TRUE
       IN  (maxRank - r + 1) * CastAtRank(optionID, r)
             + PointsByRank(optionID, maxRank, ranks \ {r})

\* C17: in the ranked tally each option's points are the sum over the
\* Selections naming it of (effective max-rank - rank + 1), 0 without
\* Selections, and its first-place count is the number of its Selections of
\* rank 1.
C17_RankedPoints ==
  \A c \in categories :
     c.vote_type = "ranked" =>
        LET t == TallyRanked(EffectiveMaxRank(c), c.id) IN
        /\ {t[i].id : i \in 1..Len(t)} = {o.id : o \in OptionsOf(c.id)}
        /\ \A i \in 1..Len(t) :
              /\ t[i].points = PointsByRank(t[i].id, EffectiveMaxRank(c),
                                            RanksCast(t[i].id))
              /\ t[i].first_place_votes = CastAtRank(t[i].id, 1)
              /\ Cast(t[i].id) = 0 => t[i].points = 0

\* max_rank 3, options X, Y, Z, one ballot X=1, Y=2: the page shows points
\* 3, 2, 0 and first place 1, 0, 0
C17_Witness ==
  /\ CategoryExists(1)
  /\ EffectiveMaxRank(GetCategory(1)) = 3
  /\ Cardinality(votes) = 1
  /\ {[option_id |-> s.option_id, rank |-> s.rank.Int64] :
         s \in BagToSet(vote_selections)}
        = {[option_id |-> 1, rank |-> 1], [option_id |-> 2, rank |-> 2]}
  /\ resp = ResultsPage("results", "tally", 1, 1,
        <<[Name |-> <<"x">>, Votes |-> 0, Points |-> 3, FirstPlace |-> 1],
          [Name |-> <<"x">>, Votes |-> 0, Points |-> 2, FirstPlace |-> 0],
          [Name |-> <<"x">>, Votes |-> 0, Points |-> 0, FirstPlace |-> 0]>>)

\* C18: the ranked tally lists every option of the category ordered by
\* points descending, then first-place count descending, then sort order
\* ascending, then option id ascending.
C18_RankedTallyOrdered ==
  \A c \in categories :
     c.vote_type = "ranked" =>
        LET t == TallyRanked(EffectiveMaxRank(c), c.id) IN
        /\ Len(t) = Cardinality(OptionsOf(c.id))
        /\ {t[i].id : i \in 1..Len(t)} = {o.id : o \in OptionsOf(c.id)}
        /\ \A i \in 1..Len(t) : \A j \in 1..Len(t) :
              i < j =>
                 LET a == GetOption(t[i].id)
                     b == GetOption(t[j].id)
                     samePoints == t[i].points = t[j].points
                     sameFirst  == t[i].first_place_votes = t[j].first_place_votes
                 IN  \/ t[i].points > t[j].points
                     \/ /\ samePoints
                        /\ t[i].first_place_votes > t[j].first_place_votes
                     \/ /\ samePoints /\ sameFirst
                        /\ a.sort_order < b.sort_order
                     \/ /\ samePoints /\ sameFirst
                        /\ a.sort_order = b.sort_order /\ a.id < b.id

\* a command-line results listing where, of two options with equal points,
\* the one with more first places comes first against the sort order
C18_Witness ==
  /\ PageIsCurrent /\ resp.op = "cli results"
  /\ GetCategory(resp.id).vote_type = "ranked"
  /\ \E a \in OptionsOf(resp.id) : \E b \in OptionsOf(resp.id) :
        /\ a.sort_order > b.sort_order
        /\ Cast(a.id) > 0
        /\ PointsByRank(a.id, EffectiveMaxRank(GetCategory(resp.id)), RanksCast(a.id))
             = PointsByRank(b.id, EffectiveMaxRank(GetCategory(resp.id)), RanksCast(b.id))
        /\ CastAtRank(a.id, 1) > CastAtRank(b.id, 1)


(***************************************************************************)
(* Results visibility.                                                     *)
(***************************************************************************)
\* C19: for a category with show_results = after_close a results request
\* reports the tally exactly when the status is closed or archived, and
\* reports not-visible when it is draft or open.
C19_AfterCloseVisibility ==
  [][\A id \in CategoryIds :
       (/\ CategoryExists(id)
        /\ GetCategory(id).show_results = "after_close"
        /\ handleResults(id))
       => IF StatusOf(id) \in {"closed", "archived"}
          THEN resp'.out = "tally"
          ELSE resp'.out = "not visible"]_vars

\* C20: for a category with show_results = live a results request exposes
\* the tally exactly when the status is open, closed or archived, and not
\* while it is draft.
C20_LiveVisibility ==
  [][\A id \in CategoryIds :
       (/\ CategoryExists(id)
        /\ GetCategory(id).show_results = "live"
        /\ handleResults(id))
       => (resp'.out = "tally" <=> StatusOf(id) \in {"open", "closed", "archived"})]_vars

(***************************************************************************)
(* Voter counts and referential integrity.                                 *)
(***************************************************************************)
\* the Vote rows of category id in table V
VotesIn(V, id) == {v \in V : v.category_id = id}
\* how many Selections the ballots of category id hold together
SelectionsIn(id) ==
  LET mine == {s \in BagToSet(vote_selections) :
                 \E v \in VotesIn(votes, id) : v.id = s.vote_id}
  IN  BagCardinality([s \in mine |-> vote_selections[s]])

\* C21: the voter count a results view reports for a category is the number
\* of its Vote rows, which is the number of distinct normalized nicknames
\* that have submitted successfully: a recorded ballot of a nickname new to
\* the category adds one, and nothing else changes it, neither the number
\* of selections on a ballot nor a re-vote.
C21_VoterCount ==
  [][\A id \in CategoryIds :
       LET known == \E v \in VotesIn(votes, id) :
                       SameVoter(v.nickname, resp'.raw)
           first == /\ resp'.op = "vote" /\ resp'.out = "recorded"
                    /\ resp'.id = id /\ ~known
       IN  /\ Cardinality(VotesIn(votes', id)) =
                 Cardinality(VotesIn(votes, id)) + (IF first THEN 1 ELSE 0)
           /\ (resp'.out = "tally" /\ resp'.id = id) =>
                 resp'.count = Cardinality(VotesIn(votes, id))]_vars

\* a results page that reports two voters whose ballots hold three
\* selections or more, one of them cast later than the other
C21_Witness ==
  /\ resp.out = "tally" /\ resp.count = 2
  /\ SelectionsIn(resp.id) >= 3
  /\ \E v \in VotesIn(votes, resp.id) : \E w \in VotesIn(votes, resp.id) :
        v.created_at < w.created_at

\* every Option and Vote references a Category, every Selection a Vote and
\* an Option
NoOrphans(C, O, V, S) ==
  /\ \A o \in O : \E c \in C : c.id = o.category_id
  /\ \A v \in V : \E c \in C : c.id = v.category_id
  /\ \A s \in BagToSet(S) : /\ \E v \in V : v.id = s.vote_id
                            /\ \E o \in O : o.id = s.option_id

\* C22: deleting a Category deletes all of its Options, all of its Votes and
\* all Selections of those Votes; and after every step every Option and Vote
\* references an existing Category and every Selection an existing Vote and
\* an existing Option.
C22_DeletesCascade ==
  [][(\A id \in BallotCategoryIds :
        (CategoryExists(id) /\ DeleteCategory(id)) =>
           /\ ~\E o \in options' : o.category_id = id
           /\ ~\E v \in votes' : v.category_id = id
           /\ \A v \in VotesIn(votes, id) :
                 ~\E s \in BagToSet(vote_selections') : s.vote_id = v.id)
     /\ NoOrphans(categories', options', votes', vote_selections')]_vars

(***************************************************************************)
(* max_rank.                                                               *)
(***************************************************************************)
\* C23: after any sequence of creations and edits, from the web and from the
\* command line, a category's max_rank is set if and only if its vote type
\* is ranked.
C23_MaxRankIffRanked ==
  \A c \in categories : c.max_rank.Valid <=> c.vote_type = "ranked"

\* a category that the command line created as ranked and a web edit turned
\* into another vote type, next to a ranked one
C23_Witness ==
  /\ resp = Answer("edit", "redirect")
  /\ \E c \in categories : /\ c.show_results = "live"
                           /\ c.vote_type # "ranked" /\ ~c.max_rank.Valid
  /\ \E c \in categories : /\ c.show_results = "after_close"
                           /\ c.vote_type = "ranked" /\ c.max_rank.Valid

\* the max_rank values of a form that are zero, negative or not a number
NoRankStrs == {<<>>, <<"0">>, <<"-", "1">>, <<"x">>}

\* C28: creating or editing a ranked category with a max_rank that is zero,
\* negative or not a number stores 3, and every ranked category, created
\* through the web or the command line, has a stored max_rank of at least 1.
C28_RankedMaxRankPositive ==
  [][/\ \A mr \in NoRankStrs :
          handleAdminCategoryNew(<<"x">>, "ranked", "live", mr) =>
             \A c \in categories' \ categories : c.max_rank = ValidInt64(3)
     /\ \A id \in CategoryIds : \A mr \in NoRankStrs :
          (/\ CategoryExists(id)
           /\ handleAdminCategoryEdit(id, <<"x">>, "ranked", "live", mr)) =>
             \A c \in categories' : c.id = id => c.max_rank = ValidInt64(3)
     /\ \A c \in categories' :
          c.vote_type = "ranked" => c.max_rank.Valid /\ c.max_rank.Int64 >= 1
    ]_vars

(***************************************************************************)
(* Failed writes.                                                          *)
(***************************************************************************)
\* the answers that report success: a redirect to the category page, or a
\* command that returns nil
ReportsSuccess(r) == r.out \in {"redirect", "ok"}

\* C24: open, close, add option and delete option (web and CLI) report
\* success only when their write was applied: a write that fails is answered
\* with a failure, never with the success redirect.
C24_FailedWriteReported ==
  [][/\ \A id \in CategoryIds :
          ((handleAdminOpen(id) \/ OpenCmdRun(id))
              /\ CategoryExists(id) /\ ReportsSuccess(resp')) =>
             \E c \in categories' : c.id = id /\ c.status = "open"
     /\ \A id \in CategoryIds :
          ((handleAdminClose(id) \/ CloseCmdRun(id))
              /\ CategoryExists(id) /\ ReportsSuccess(resp')) =>
             \E c \in categories' : c.id = id /\ c.status = "closed"
     /\ \A id \in OptionIds :
          ((handleAdminDeleteOption(id) \/ OptionRemoveCmdRun(id))
              /\ OptionExists(id) /\ ReportsSuccess(resp')) =>
             ~\E o \in options' : o.id = id
     /\ \A id \in CategoryIds : \A n \in LcNames :
          ((handleAdminAddOption(id, n) \/ OptionAddCmdRun(id, n))
              /\ ReportsSuccess(resp')) =>
             \E o \in options' \ options : o.category_id = id
    ]_vars

(***************************************************************************)
(* Frame of a re-vote.                                                     *)
(***************************************************************************)
\* C25: a recorded ballot of a voter who already has a Vote row in the
\* category keeps that row, with only its timestamp refreshed, and leaves
\* every other Vote row (other voters of the category, any voter of another
\* category) and the Selections of those rows as they were.
C25_RevoteFrame ==
  [][(resp'.op = "vote" /\ resp'.out = "recorded") =>
       \A v \in votes :
          IF v.category_id = resp'.id /\ SameVoter(v.nickname, resp'.raw)
          THEN /\ [v EXCEPT !.created_at = now] \in votes'
               /\ \A w \in votes' : w.id = v.id => w.nickname = v.nickname
               /\ Cardinality(votes') = Cardinality(votes)
          ELSE /\ v \in votes'
               /\ SelectionsOf(vote_selections', v.id) =
                     SelectionsOf(vote_selections, v.id)]_vars

\* a re-vote, later than the first ballot, next to an older Vote row that
\* holds two selections
C25_Witness ==
  /\ resp.op = "vote" /\ resp.out = "recorded" /\ resp.prior >= 0
  /\ \E v \in votes : \E w \in votes :
        /\ v.category_id = resp.id /\ SameVoter(v.nickname, resp.raw)
        /\ v.created_at = 1
        /\ w # v /\ w.created_at = 0 /\ BallotSize(w) = 2

(***************************************************************************)
(* The admin interface.                                                    *)
(***************************************************************************)
\* C26: a request to a path under /admin with no basic-auth credentials, with
\* a user other than admin, or with a password other than the configured
\* one is answered Unauthorized and changes nothing; only a request with
\* user admin and the configured password reaches an admin operation.
C26_AdminNeedsPassword ==
  [][\A cred \in AdCredentials : \A route \in AdRoutes :
       \A req \in AdRequests(route) :
          handleAdmin(cred, req) =>
             IF cred.ok /\ cred.user = "admin" /\ cred.pass = "secret"
             THEN resp'.op # "admin" \/ resp'.out = "not found"
             ELSE /\ resp' = Answer("admin", "unauthorized")
                  /\ UNCHANGED db]_vars

\* a request turned away while the poll is open and has an option
C26_Witness ==
  /\ resp = Answer("admin", "unauthorized")
  /\ \E c \in categories : c.status = "open" /\ HasOptions(c.id)

\* C27: the admin dashboard lists exactly the categories whose status is not
\* archived.
C27_DashboardHidesArchived ==
  resp.op = "dashboard" =>
     resp.categories = {c \in categories : c.status # "archived"}

(***************************************************************************)
(* Concurrent submissions of one voter.                                    *)
(***************************************************************************)
\* the ballot the request of session s submits, as a bag of (option, rank)
SubmissionOf(s) ==
  LET sels == txs[s].selections
      keys == {[option_id |-> sels[k].OptionID, rank |-> sels[k].Rank] :
                 k \in 1..Len(sels)}
  IN  [x \in keys |->
         Cardinality({k \in 1..Len(sels) :
            sels[k].OptionID = x.option_id /\ sels[k].Rank = x.rank})]

\* C29: when submissions of the same voter to the same category run
\* concurrently, the voter has exactly one Vote row and its Selections are
\* exactly those of one submission: each commit leaves the one row with the
\* committing request's selections, and no other step of any request
\* changes the stored votes or selections.
C29_ConcurrentSameVoter ==
  [][/\ \A s \in Sessions :
          TxCommit(s) =>
             LET rows == {v \in votes' : /\ v.category_id = txs[s].id
                                         /\ SameVoter(v.nickname, txs[s].raw)}
             IN  /\ Cardinality(rows) = 1
                 /\ \A v \in rows :
                       SelectionsOf(vote_selections', v.id) = SubmissionOf(s)
     /\ (\A s \in Sessions : ~TxCommit(s)) =>
           /\ votes' = votes
           /\ vote_selections' = vote_selections
    ]_vars

\* a request that began as the voter's first ballot and whose upsert met the
\* row of a concurrent request of the same voter, committed meanwhile with
\* other selections
C29_Witness ==
  \E s \in Sessions : \E v \in votes :
     /\ txs[s].pc = "upserted" /\ txs[s].fresh
     /\ v.category_id = txs[s].id /\ v.nickname = txs[s].nickname
     /\ v.id = txs[s].vote
     /\ BallotOf(v) # SubmissionOf(s) /\ BallotSize(v) > 0

(***************************************************************************)
(* Approval ballots.                                                       *)
(***************************************************************************)
\* how many times a form submits option o as a choice
TimesChosen(form, o) ==
  Cardinality({k \in 1..Len(form.choice) : ParseInt(form.choice[k]) = o})

\* the Selection rows in bag S that vote voteID holds for option o
TimesStored(S, voteID, o) ==
  LET row == [vote_id |-> voteID, option_id |-> o, rank |-> NullInt64]
  IN  IF row \in BagToSet(S) THEN S[row] ELSE 0

\* the Selection rows that votes other than voteID hold for option o
StoredByOthers(voteID, o) ==
  CountRows({s \in BagToSet(vote_selections) :
               s.option_id = o /\ s.vote_id # voteID})

\* C30: a recorded approval ballot stores one Selection per submitted option
\* id, repeats included: an option submitted k times gets k Selections of
\* the voter, and the simple tally counts them all.
C30_ApprovalKeepsDuplicates ==
  [][(resp'.op = "vote" /\ resp'.out = "recorded") =>
       \A id \in {resp'.id} : \A form \in TypedAs(id, resp'.raw) :
          (handleVote(id, form) /\ GetCategory(id).vote_type = "approval") =>
             \A v \in VoteRows(votes', id, NormalizeNickname(form.nickname)) :
                /\ \A o \in OptionIds :
                      TimesStored(vote_selections', v.id, o) =
                         TimesChosen(form, o)
                /\ \A tally \in {TallySimple(id)'} : \A i \in 1..Len(tally) :
                      tally[i].votes = TimesChosen(form, tally[i].id)
                                        + StoredByOthers(v.id, tally[i].id)
    ]_vars

\* an approval ballot just recorded that holds two Selections of one option
C30_Witness ==
  /\ resp.op = "vote" /\ resp.out = "recorded"
  /\ GetCategory(resp.id).vote_type = "approval"
  /\ \E v \in votes :
        /\ v.category_id = resp.id
        /\ v.nickname = NormalizeNickname(resp.raw)
        /\ \E o \in OptionIds : TimesStored(vote_selections, v.id, o) = 2

(***************************************************************************)
(* Options of other categories.                                            *)
(***************************************************************************)
\* the option ids a form of vote type vt submits
ChosenIds(vt, form) ==
  IF vt = "single" THEN {ParseInt(form.choice[1])}
  ELSE {ParseInt(form.choice[k]) : k \in 1..Len(form.choice)}

\* the forms of the voters specification that carry nickname raw as typed
VtTypedAs(id, raw) == {f \in VtForms(id) : f.nickname = raw}

\* C31: a single or approval ballot is not checked for its option ids
\* belonging to the category voted on: when every submitted id is an
\* existing option, of this or of another category, the ballot is recorded
\* and the Vote holds a Selection of each submitted option.
C31_ForeignOptionAccepted ==
  [][resp'.op = "vote" =>
       \A id \in {c.id : c \in {x \in categories : x.status = "open"}} :
          \A form \in (IF resp'.out = "recorded"
                       THEN VtTypedAs(id, resp'.raw) ELSE VtForms(id)) :
             (/\ \A o \in ChosenIds(GetCategory(id).vote_type, form) :
                    OptionExists(o)
              /\ handleVote(id, form))
             => /\ resp'.out = "recorded"
                /\ \A v \in VoteRows(votes', id,
                                     NormalizeNickname(form.nickname)) :
                      {s.option_id :
                         s \in BagToSet(SelectionsOf(vote_selections', v.id))}
                         = ChosenIds(GetCategory(id).vote_type, form)]_vars

\* a ballot just recorded whose Vote holds a Selection of an option of
\* another category
C31_Witness ==
  /\ resp.op = "vote" /\ resp.out = "recorded"
  /\ \E v \in votes : \E s \in BagToSet(vote_selections) :
        /\ v.category_id = resp.id /\ s.vote_id = v.id
        /\ GetOption(s.option_id).category_id # v.category_id

(***************************************************************************)
(* Options and the open status.                                            *)
(***************************************************************************)
\* C32: listing a category's options by sort order, then identity, returns
\* them in the order in which they were added.  An inserted option takes an
\* id above every id in the table, so among the options that remain the
\* order of addition is the order of their ids.
C32_ListedAsAdded ==
  \A id \in BallotCategoryIds :
     LET listed == ListOptionsByCategory(id)
     IN  \A i \in 1..Len(listed) : \A j \in 1..Len(listed) :
            i < j => listed[i].id < listed[j].id

\* C33: in every reachable state a category whose status is open has at
\* least one option.
C33_OpenHasOptions ==
  \A c \in categories : c.status = "open" => HasOptions(c.id)

\* the Votes of category id and the Selections those Votes hold
RecordedIn(V, S, id) ==
  [votes      |-> VotesIn(V, id),
   selections |-> [s \in {x \in BagToSet(S) :
                            \E v \in VotesIn(V, id) : v.id = x.vote_id}
                     |-> S[s]]]

\* C34: while a category stays closed its Votes and Selections do not
\* change: no step that starts and ends with the category closed alters
\* them, a submission that commits after the Close included.
C34_ClosedIsFrozen ==
  [][\A c \in categories :
        (/\ c.status = "closed"
         /\ \E d \in categories' : d.id = c.id /\ d.status = "closed")
        => RecordedIn(votes', vote_selections', c.id)
             = RecordedIn(votes, vote_selections, c.id)]_vars

\* C35: a ballot submitted to one category never changes the simple or
\* the ranked tally of another category.
C35_TallyIsolated ==
  [][resp'.op = "vote" =>
       \A d \in CategoryIds :
          d # resp'.id =>
            \A after \in {<<TallySimple(d), TallyRanked(DefaultMaxRank, d)>>'} :
               after = <<TallySimple(d), TallyRanked(DefaultMaxRank, d)>>]_vars

\* Results visibility and the life of a category.

\* C36: a category appears in the list of categories with results if and
\* only if a results request for that category exposes its tally.
C36_ListMatchesPage ==
  \A c \in categories : (c \in ListCategoriesWithResults) <=> ~NotVisible(c)

\* C37: once a category has left draft, no operation returns its status to
\* draft.
C37_NeverBackToDraft ==
  [][\A c \in categories : \A d \in categories' :
        (c.status # "draft" /\ d.id = c.id) => d.status # "draft"]_vars

\* a closed category that holds ballots has just been edited
C37_Witness ==
  /\ resp.op = "edit"
  /\ resp.out = "redirect"
  /\ \E c \in categories : c.status = "closed" /\ votes # {}

\* C38: an edit of a category leaves the status of every category, the
\* options, the Votes and the Selections unchanged, and an edit whose name
\* is empty or holds only spaces is rejected and changes nothing at all.
C38_EditFrame ==
  [][/\ (resp'.op = "edit" =>
           /\ <<options, votes, vote_selections>>'
                = <<options, votes, vote_selections>>
           /\ {<<c.id, c.status>> : c \in categories'}
                = {<<c.id, c.status>> : c \in categories})
     /\ (\A id \in BallotCategoryIds : \A e \in StEdits(id) :
           (/\ CategoryExists(id)
            /\ \A i \in 1..Len(e[1]) : e[1][i] = " "
            /\ handleAdminCategoryEdit(id, e[1], e[2], "live", <<>>))
           => /\ resp'.out = "name required"
              /\ <<categories, options, votes, vote_selections>>'
                   = <<categories, options, votes, vote_selections>>)]_vars

\* an open category that holds a ballot has just refused a blank name
C38_Witness ==
  /\ resp.op = "edit"
  /\ resp.out = "name required"
  /\ \E c \in categories :
        /\ c.status = "open"
        /\ \E v \in votes : v.category_id = c.id
        /\ \E o \in options : o.category_id = c.id

=============================================================================
